---- MODULE Spec2Model ----
(***************************************************************************)
(* A model of the chess engine of src/ChessEngine.py (class ChessGame,     *)
(* class Move, class CastleRights) as it is driven by the main loop of     *)
(* src/ChessMain.py: the driver asks getValidMovesAdvanced for the legal   *)
(* moves, hands one of them to processMove, and may call undoMove.         *)
(*                                                                         *)
(* Squares are (row, column) pairs with row 0 = rank 8, as in the source.  *)
(* A piece is the source's two-character string ("WK", "BP", "--").        *)
(* Python's 0-based lists are functions over 0..7 (the board) or TLA+      *)
(* sequences (move lists, logs); a Python tuple (r, c) is <<r, c>> and the *)
(* empty tuple () is <<>>.                                                 *)
(***************************************************************************)
EXTENDS Integers, Sequences, FiniteSets, TLC

(***************************************************************************)
(* Bounds of the exploration.                                              *)
(***************************************************************************)
\* Number of plies the driver may play freely once an opening line is over.
MaxPly == 1

\* How far outside the board the coordinates given to Move may lie.
OutOfRange == 1

(***************************************************************************)
(* Pieces: the two characters of a board cell.                             *)
(***************************************************************************)
WhitePieces == {"WP", "WR", "WN", "WB", "WQ", "WK"}
BlackPieces == {"BP", "BR", "BN", "BB", "BQ", "BK"}

\* piece[0]
Color(p) == IF p \in WhitePieces THEN "W" ELSE IF p \in BlackPieces THEN "B" ELSE "-"

\* piece[1]
Kind(p) ==
  CASE p \in {"WP", "BP"} -> "P"
    [] p \in {"WR", "BR"} -> "R"
    [] p \in {"WN", "BN"} -> "N"
    [] p \in {"WB", "BB"} -> "B"
    [] p \in {"WQ", "BQ"} -> "Q"
    [] p \in {"WK", "BK"} -> "K"
    [] OTHER -> "-"

\* QueenOf that leaves the pawn a pawn.  C27_Promotion fails with it.
QueenOf_PawnKept(color) == IF color = "W" THEN "WP" ELSE "BP"

\* colour + 'Q' (string concatenation of processMove's promotion)
QueenOf(color) == IF color = "W" THEN "WQ" ELSE "BQ"

\* The captured piece of an en-passant move taken to be the capturing pawn's
\* own kind.  C31_EnPassantEffect fails with it.
EnPassantVictim_Own(movedPiece) == movedPiece

\* 'BP' if movedPiece == 'WP' else 'WP'
EnPassantVictim(movedPiece) == IF movedPiece = "WP" THEN "BP" ELSE "WP"

OnBoard(r, c) == 0 <= r /\ r < 8 /\ 0 <= c /\ c < 8

Abs(x) == IF x < 0 THEN -x ELSE x

\* Sequencing of two statements: x is evaluated once, as a statement's result
\* is, and F is applied to its value.
Then(x, F(_)) == CHOOSE r \in {F(v) : v \in {x}} : TRUE

\* A board literal (8 rows of 8 cells) as the 0-based ChessBoard[row][column].
MkBoard(lit) == [r \in 0..7 |-> [c \in 0..7 |-> lit[r + 1][c + 1]]]

\* The board the constructor installs.
ConstructorBoard ==
  MkBoard(<< <<"--", "--", "--", "BK", "--", "--", "--", "--">>,
             <<"--", "--", "--", "--", "--", "--", "--", "--">>,
             <<"--", "--", "--", "WK", "--", "--", "--", "WQ">>,
             <<"--", "--", "--", "--", "--", "--", "--", "--">>,
             <<"--", "--", "--", "--", "--", "--", "--", "--">>,
             <<"--", "--", "--", "--", "--", "--", "--", "--">>,
             <<"--", "--", "--", "--", "--", "--", "--", "--">>,
             <<"--", "--", "--", "--", "--", "--", "--", "--">> >>)

\* The standard starting board, which the constructor holds commented out.
StandardBoard ==
  MkBoard(<< <<"BR", "BN", "BB", "BQ", "BK", "BB", "BN", "BR">>,
             <<"BP", "BP", "BP", "BP", "BP", "BP", "BP", "BP">>,
             <<"--", "--", "--", "--", "--", "--", "--", "--">>,
             <<"--", "--", "--", "--", "--", "--", "--", "--">>,
             <<"--", "--", "--", "--", "--", "--", "--", "--">>,
             <<"--", "--", "--", "--", "--", "--", "--", "--">>,
             <<"WP", "WP", "WP", "WP", "WP", "WP", "WP", "WP">>,
             <<"WR", "WN", "WB", "WQ", "WK", "WB", "WN", "WR">> >>)

(***************************************************************************)
(* class CastleRights and class Move.                                      *)
(***************************************************************************)
CastleRights(WKs, BKs, WQs, BQs) == [WKs |-> WKs, BKs |-> BKs, WQs |-> WQs, BQs |-> BQs]

\* Move.__init__: the pieces are snapshots of the board at creation.
Move(start, end, board, isPawnPromotion, isEnPassantMove, isCastleMove) ==
  LET movedPiece == board[start[1]][start[2]]
  IN  [startRow |-> start[1], startColumn |-> start[2],
       endRow |-> end[1], endColumn |-> end[2],
       movedPiece |-> movedPiece,
       capturedPiece |-> IF isEnPassantMove THEN EnPassantVictim(movedPiece)
                         ELSE board[end[1]][end[2]],
       moveID |-> start[1] * 1000 + end[1] * 100 + start[2] * 10 + end[2],
       isPawnPromotion |-> isPawnPromotion,
       isEnPassant |-> isEnPassantMove,
       isCastleMove |-> isCastleMove]

\* Move.__eq__ comparing the flags as well as the moveID
MoveEq_WithFlags(m1, m2) ==
  /\ m1.moveID = m2.moveID
  /\ m1.isPawnPromotion = m2.isPawnPromotion
  /\ m1.isEnPassant = m2.isEnPassant
  /\ m1.isCastleMove = m2.isCastleMove

\* Move.__eq__
MoveEq(m1, m2) == m1.moveID = m2.moveID

\* A Python list of 8 rows of 8 cells under subscription: the indices -8..7
\* are accepted, a negative one counting from the end.
Subscriptable(i) == -8 <= i /\ i < 8
AsList(board) == [r \in -8..7 |-> [c \in -8..7 |-> board[r % 8][c % 8]]]

\* Move(starting_square, ending_square, game_state, ...) as a call: what it
\* returns, or the exception the subscriptions of ChessBoard raise.
NewMove(start, end, board, isPawnPromotion, isEnPassantMove, isCastleMove) ==
  IF Subscriptable(start[1]) /\ Subscriptable(start[2])
     /\ Subscriptable(end[1]) /\ Subscriptable(end[2])
  THEN [raised |-> "",
        returned |-> <<Move(start, end, AsList(board),
                            isPawnPromotion, isEnPassantMove, isCastleMove)>>]
  ELSE [raised |-> "IndexError", returned |-> <<>>]

\* The class attributes of Move.
ranks_to_rows ==
  ("1" :> 7 @@ "2" :> 6 @@ "3" :> 5 @@ "4" :> 4 @@ "5" :> 3 @@ "6" :> 2 @@ "7" :> 1 @@ "8" :> 0)
rows_to_ranks ==
  [value \in {ranks_to_rows[key] : key \in DOMAIN ranks_to_rows} |->
     CHOOSE key \in DOMAIN ranks_to_rows : ranks_to_rows[key] = value]
files_to_columns ==
  ("a" :> 0 @@ "b" :> 1 @@ "c" :> 2 @@ "d" :> 3 @@ "e" :> 4 @@ "f" :> 5 @@ "g" :> 6 @@ "h" :> 7)
column_to_files ==
  [value \in {files_to_columns[key] : key \in DOMAIN files_to_columns} |->
     CHOOSE key \in DOMAIN files_to_columns : files_to_columns[key] = value]

\* Move.getRankFile putting the rank before the file
getRankFile_RankFirst(row, column) == rows_to_ranks[row] \o column_to_files[column]

\* Move.getRankFile on keys the two dictionaries hold.
getRankFile(row, column) == column_to_files[column] \o rows_to_ranks[row]

\* Move.getChessNotation as a call: the string, or the KeyError of a
\* dictionary that does not hold the row or the column.
getChessNotation(m) ==
  IF /\ m.startColumn \in DOMAIN column_to_files /\ m.startRow \in DOMAIN rows_to_ranks
     /\ m.endColumn \in DOMAIN column_to_files /\ m.endRow \in DOMAIN rows_to_ranks
  THEN [raised |-> "",
        returned |-> <<getRankFile(m.startRow, m.startColumn)
                       \o getRankFile(m.endRow, m.endColumn)>>]
  ELSE [raised |-> "KeyError", returned |-> <<>>]

\* list.remove(x) on a list of tuples: drops the first element equal to x.
RECURSIVE RemoveTuple(_, _)
RemoveTuple(list, x) ==
  IF list = <<>> THEN <<>>
  ELSE IF Head(list) = x THEN Tail(list)
  ELSE <<Head(list)>> \o RemoveTuple(Tail(list), x)

\* list.remove(x) on a list of moves: drops the first element that Move.__eq__
\* finds equal to x.
RECURSIVE RemoveMove(_, _)
RemoveMove(list, x) ==
  IF list = <<>> THEN <<>>
  ELSE IF MoveEq(Head(list), x) THEN Tail(list)
  ELSE <<Head(list)>> \o RemoveMove(Tail(list), x)

(***************************************************************************)
(* checkForPinsAndChecks                                                   *)
(***************************************************************************)
\* directions of checkForPinsAndChecks, index i = 0..7 is Directions[i + 1]
Directions ==
  << <<-1, 0>>, <<0, -1>>, <<1, 0>>, <<0, 1>>,
     <<-1, -1>>, <<-1, 1>>, <<1, -1>>, <<1, 1>> >>

\* knightMoves of checkForPinsAndChecks
KnightChecks ==
  << <<-2, -1>>, <<-2, 1>>, <<-1, -2>>, <<-1, 2>>,
     <<1, -2>>, <<1, 2>>, <<2, -1>>, <<2, 1>> >>

\* AttacksAlongRay without the pawn's one-step diagonal.  C22_CheckDetection
\* fails with it.
AttacksAlongRay_PawnOmitted(piece, i, j, enemyColor) ==
  \/ (0 <= i /\ i <= 3 /\ piece = "R")
  \/ (4 <= i /\ i <= 7 /\ piece = "B")
  \/ piece = "Q"
  \/ (j = 1 /\ piece = "K")

\* The test that an enemy piece found at distance j in direction i attacks
\* along the ray.
AttacksAlongRay(piece, i, j, enemyColor) ==
  \/ (0 <= i /\ i <= 3 /\ piece = "R")
  \/ (4 <= i /\ i <= 7 /\ piece = "B")
  \/ (j = 1 /\ piece = "P" /\ ((enemyColor = "W" /\ 6 <= i /\ i <= 7)
                                \/ (enemyColor = "B" /\ 4 <= i /\ i <= 5)))
  \/ piece = "Q"
  \/ (j = 1 /\ piece = "K")

\* The inner loop over j for direction i; acc = [inCheck, pins, checks].
RECURSIVE ScanRay(_, _, _, _, _, _, _, _)
ScanRay(board, start, i, j, possiblePin, acc, allyColor, enemyColor) ==
  LET direction == Directions[i + 1]
      endRow == start[1] + direction[1] * j
      endColumn == start[2] + direction[2] * j
  IN  IF j > 7 \/ ~OnBoard(endRow, endColumn) THEN acc
      ELSE LET endPiece == board[endRow][endColumn]
           IN  IF Color(endPiece) = allyColor /\ Kind(endPiece) # "K"
               THEN IF possiblePin = <<>>
                    THEN ScanRay(board, start, i, j + 1,
                                 <<endRow, endColumn, direction[1], direction[2]>>,
                                 acc, allyColor, enemyColor)
                    ELSE acc
               ELSE IF Color(endPiece) = enemyColor
               THEN IF AttacksAlongRay(Kind(endPiece), i, j, enemyColor)
                    THEN IF possiblePin = <<>>
                         THEN [acc EXCEPT !.inCheck = TRUE,
                                          !.checks = Append(@, <<endRow, endColumn,
                                                                direction[1], direction[2]>>)]
                         ELSE ScanRay(board, start, i, j + 1, possiblePin,
                                      [acc EXCEPT !.pins = Append(@, possiblePin)],
                                      allyColor, enemyColor)
                    ELSE acc
               ELSE ScanRay(board, start, i, j + 1, possiblePin, acc, allyColor, enemyColor)

\* The outer loop over the directions first..last, run as its first half
\* followed by its second half.
RECURSIVE ScanRays(_, _, _, _, _, _, _)
ScanRays(board, start, first, last, acc, allyColor, enemyColor) ==
  IF first = last
  THEN ScanRay(board, start, first, 1, <<>>, acc, allyColor, enemyColor)
  ELSE Then(ScanRays(board, start, first, (first + last) \div 2, acc,
                     allyColor, enemyColor),
            LAMBDA half : ScanRays(board, start, (first + last) \div 2 + 1, last, half,
                                   allyColor, enemyColor))

\* The loop over the knight offsets.
RECURSIVE ScanKnights(_, _, _, _, _)
ScanKnights(board, start, k, acc, enemyColor) ==
  IF k > Len(KnightChecks) THEN acc
  ELSE LET move == KnightChecks[k]
           endRow == start[1] + move[1]
           endColumn == start[2] + move[2]
       IN  IF OnBoard(endRow, endColumn)
              /\ Color(board[endRow][endColumn]) = enemyColor
              /\ Kind(board[endRow][endColumn]) = "N"
           THEN ScanKnights(board, start, k + 1,
                            [acc EXCEPT !.inCheck = TRUE,
                                        !.checks = Append(@, <<endRow, endColumn,
                                                              move[1], move[2]>>)],
                            enemyColor)
           ELSE ScanKnights(board, start, k + 1, acc, enemyColor)

\* checkForPinsAndChecks: reads the board, the side to move and that side's
\* recorded king location; returns (inCheck, pins, checks).
checkForPinsAndChecks(board, wtm, WK, BK) ==
  LET enemyColor == IF wtm THEN "B" ELSE "W"
      allyColor == IF wtm THEN "W" ELSE "B"
      start == IF wtm THEN WK ELSE BK
  IN  Then(ScanRays(board, start, 0, 7,
                    [inCheck |-> FALSE, pins |-> <<>>, checks |-> <<>>],
                    allyColor, enemyColor),
           LAMBDA rays : ScanKnights(board, start, 1, rays, enemyColor))

(***************************************************************************)
(* The per-piece generators.  Each reads the board, the side to move and   *)
(* the en-passant square, and threads through the accumulator              *)
(*   a = [moves, pins, WK_Location, BK_Location]                           *)
(* what the method mutates: the list it appends to, self.pins (entries are *)
(* removed as pinned pieces are visited) and the king locations (which     *)
(* getKingMoves overwrites while probing).                                 *)
(***************************************************************************)
\* for i in range(len(self.pins) - 1, -1, -1): the first i, from the end,
\* whose entry names the square (1-based; 0 when there is none).
RECURSIVE LastPinAt(_, _, _, _)
LastPinAt(pinList, i, row, column) ==
  IF i = 0 THEN 0
  ELSE IF pinList[i][1] = row /\ pinList[i][2] = column THEN i
  ELSE LastPinAt(pinList, i - 1, row, column)

\* The same loop when it does not break (a queen in getRookMoves and
\* getBishopMoves): the entry assigned last is the one nearest the front.
RECURSIVE FirstPinAt(_, _, _, _)
FirstPinAt(pinList, i, row, column) ==
  IF i > Len(pinList) THEN 0
  ELSE IF pinList[i][1] = row /\ pinList[i][2] = column THEN i
  ELSE FirstPinAt(pinList, i + 1, row, column)

getPawnMoves(board, wtm, ep, row, column, a) ==
  LET k == LastPinAt(a.pins, Len(a.pins), row, column)
      piecePinned == k # 0
      pinDirection == IF piecePinned THEN <<a.pins[k][3], a.pins[k][4]>> ELSE <<>>
      pinsAfter == IF piecePinned THEN RemoveTuple(a.pins, a.pins[k]) ELSE a.pins
      moveAmount == IF wtm THEN -1 ELSE 1
      startRow == IF wtm THEN 6 ELSE 1
      backRow == IF wtm THEN 0 ELSE 7
      enemyColor == IF wtm THEN "B" ELSE "W"
      \* pawnPromotion: set, where a move is appended, exactly when the
      \* destination row is the back row
      pawnPromotion == (row + moveAmount = backRow)
      ahead ==
        IF board[row + moveAmount][column] = "--"
           /\ (~piecePinned \/ pinDirection = <<moveAmount, 0>>)
        THEN <<Move(<<row, column>>, <<row + moveAmount, column>>, board,
                    pawnPromotion, FALSE, FALSE)>>
             \o (IF row = startRow /\ board[row + 2 * moveAmount][column] = "--"
                 THEN <<Move(<<row, column>>, <<row + 2 * moveAmount, column>>, board,
                             FALSE, FALSE, FALSE)>>
                 ELSE <<>>)
        ELSE <<>>
      Diagonal(dc) ==
        IF ~piecePinned \/ pinDirection = <<moveAmount, dc>>
        THEN (IF Color(board[row + moveAmount][column + dc]) = enemyColor
              THEN <<Move(<<row, column>>, <<row + moveAmount, column + dc>>, board,
                          pawnPromotion, FALSE, FALSE)>>
              ELSE <<>>)
             \o (IF <<row + moveAmount, column + dc>> = ep
                 THEN <<Move(<<row, column>>, <<row + moveAmount, column + dc>>, board,
                             FALSE, TRUE, FALSE)>>
                 ELSE <<>>)
        ELSE <<>>
      left == IF column > 0 THEN Diagonal(-1) ELSE <<>>
      right == IF column < 7 THEN Diagonal(1) ELSE <<>>
  IN  [a EXCEPT !.moves = @ \o ahead \o left \o right, !.pins = pinsAfter]

\* directions of getRookMoves
RookDirections == << <<-1, 0>>, <<0, -1>>, <<1, 0>>, <<0, 1>> >>

\* The inner loop of getRookMoves over i for one direction.
RECURSIVE RookRay(_, _, _, _, _, _, _)
RookRay(board, row, column, direction, i, enemyColor, onPinLine) ==
  LET endRow == row + direction[1] * i
      endColumn == column + direction[2] * i
  IN  IF i > 7 \/ ~OnBoard(endRow, endColumn) THEN <<>>
      ELSE IF ~onPinLine
      THEN RookRay(board, row, column, direction, i + 1, enemyColor, onPinLine)
      ELSE IF board[endRow][endColumn] = "--"
      THEN <<Move(<<row, column>>, <<endRow, endColumn>>, board, FALSE, FALSE, FALSE)>>
           \o RookRay(board, row, column, direction, i + 1, enemyColor, onPinLine)
      ELSE IF Color(board[endRow][endColumn]) = enemyColor
      THEN <<Move(<<row, column>>, <<endRow, endColumn>>, board, FALSE, FALSE, FALSE)>>
      ELSE <<>>

\* getRookMoves without its pin test: a pinned rook or queen slides in all four
\* directions.  C4_PinRestriction fails with it.
getRookMoves_IgnoringPins(board, wtm, row, column, a) ==
  LET enemyColor == IF wtm THEN "B" ELSE "W"
      Along(d) == RookRay(board, row, column, RookDirections[d], 1, enemyColor, TRUE)
  IN  [a EXCEPT !.moves = @ \o Along(1) \o Along(2) \o Along(3) \o Along(4)]

getRookMoves(board, wtm, row, column, a) ==
  LET isQueen == Kind(board[row][column]) = "Q"
      k == IF isQueen THEN FirstPinAt(a.pins, 1, row, column)
           ELSE LastPinAt(a.pins, Len(a.pins), row, column)
      piecePinned == k # 0
      pinDirection == IF piecePinned THEN <<a.pins[k][3], a.pins[k][4]>> ELSE <<>>
      pinsAfter == IF piecePinned /\ ~isQueen THEN RemoveTuple(a.pins, a.pins[k])
                   ELSE a.pins
      enemyColor == IF wtm THEN "B" ELSE "W"
      Along(d) == RookRay(board, row, column, RookDirections[d], 1, enemyColor,
                          ~piecePinned \/ pinDirection = RookDirections[d]
                          \/ pinDirection = <<-RookDirections[d][1], -RookDirections[d][2]>>)
  IN  [a EXCEPT !.moves = @ \o Along(1) \o Along(2) \o Along(3) \o Along(4),
                !.pins = pinsAfter]

\* directions of getKnightMoves
KnightDirections ==
  << <<-1, 2>>, <<-2, 1>>, <<-1, -2>>, <<-2, -1>>,
     <<1, 2>>, <<2, 1>>, <<1, -2>>, <<2, -1>> >>

getKnightMoves(board, wtm, row, column, a) ==
  LET k == LastPinAt(a.pins, Len(a.pins), row, column)
      piecePinned == k # 0
      pinsAfter == IF piecePinned THEN RemoveTuple(a.pins, a.pins[k]) ELSE a.pins
      allyColor == IF wtm THEN "W" ELSE "B"
      Jump(d) ==
        LET endRow == row + KnightDirections[d][1]
            endColumn == column + KnightDirections[d][2]
        IN  IF OnBoard(endRow, endColumn) /\ ~piecePinned
               /\ Color(board[endRow][endColumn]) # allyColor
            THEN <<Move(<<row, column>>, <<endRow, endColumn>>, board, FALSE, FALSE, FALSE)>>
            ELSE <<>>
  IN  [a EXCEPT !.moves = @ \o Jump(1) \o Jump(2) \o Jump(3) \o Jump(4)
                            \o Jump(5) \o Jump(6) \o Jump(7) \o Jump(8),
                !.pins = pinsAfter]

\* directions of getBishopMoves
BishopDirections == << <<-1, -1>>, <<-1, 1>>, <<1, -1>>, <<1, 1>> >>

\* The inner loop of getBishopMoves over row_count for one direction.
RECURSIVE BishopRay(_, _, _, _, _, _, _)
BishopRay(board, row, column, direction, i, enemyColor, onPinLine) ==
  LET endRow == row + direction[1] * i
      endColumn == column + direction[2] * i
  IN  IF i > 7 \/ ~OnBoard(endRow, endColumn) THEN <<>>
      ELSE IF ~onPinLine
      THEN BishopRay(board, row, column, direction, i + 1, enemyColor, onPinLine)
      ELSE IF board[endRow][endColumn] = "--"
      THEN <<Move(<<row, column>>, <<endRow, endColumn>>, board, FALSE, FALSE, FALSE)>>
           \o BishopRay(board, row, column, direction, i + 1, enemyColor, onPinLine)
      ELSE IF Color(board[endRow][endColumn]) = enemyColor
      THEN <<Move(<<row, column>>, <<endRow, endColumn>>, board, FALSE, FALSE, FALSE)>>
      ELSE <<>>

getBishopMoves(board, wtm, row, column, a) ==
  LET isQueen == Kind(board[row][column]) = "Q"
      k == IF isQueen THEN FirstPinAt(a.pins, 1, row, column)
           ELSE LastPinAt(a.pins, Len(a.pins), row, column)
      piecePinned == k # 0
      pinDirection == IF piecePinned THEN <<a.pins[k][3], a.pins[k][4]>> ELSE <<>>
      pinsAfter == IF piecePinned /\ ~isQueen THEN RemoveTuple(a.pins, a.pins[k])
                   ELSE a.pins
      enemyColor == IF wtm THEN "B" ELSE "W"
      Along(d) == BishopRay(board, row, column, BishopDirections[d], 1, enemyColor,
                            ~piecePinned \/ pinDirection = BishopDirections[d]
                            \/ pinDirection = <<-BishopDirections[d][1],
                                                -BishopDirections[d][2]>>)
  IN  [a EXCEPT !.moves = @ \o Along(1) \o Along(2) \o Along(3) \o Along(4),
                !.pins = pinsAfter]

getQueenMoves(board, wtm, row, column, a) ==
  Then(getRookMoves(board, wtm, row, column, a),
       LAMBDA afterRook : getBishopMoves(board, wtm, row, column, afterRook))

\* directions of getKingMoves
KingDirections ==
  << <<-1, 0>>, <<1, 0>>, <<0, -1>>, <<0, 1>>,
     <<-1, 1>>, <<-1, -1>>, <<1, 1>>, <<1, -1>> >>

\* getKingMoves probing from the king's own square instead of the candidate's.
\* C28_KingProbe fails with it.
getKingMoves_Unmoved(board, wtm, row, column, a) ==
  LET allyColor == IF wtm THEN "W" ELSE "B"
      Candidate(d) ==
        LET endRow == row + KingDirections[d][1]
            endColumn == column + KingDirections[d][2]
        IN  OnBoard(endRow, endColumn) /\ Color(board[endRow][endColumn]) # allyColor
      Step(d) ==
        LET endRow == row + KingDirections[d][1]
            endColumn == column + KingDirections[d][2]
            probe == IF allyColor = "W"
                     THEN checkForPinsAndChecks(board, wtm, <<row, column>>,
                                                a.BK_Location)
                     ELSE checkForPinsAndChecks(board, wtm, a.WK_Location,
                                                <<row, column>>)
        IN  IF Candidate(d) /\ ~probe.inCheck
            THEN <<Move(<<row, column>>, <<endRow, endColumn>>, board, FALSE, FALSE, FALSE)>>
            ELSE <<>>
      probed == \E d \in 1..8 : Candidate(d)
  IN  [a EXCEPT !.moves = @ \o Step(1) \o Step(2) \o Step(3) \o Step(4)
                            \o Step(5) \o Step(6) \o Step(7) \o Step(8),
                !.WK_Location = IF probed /\ allyColor = "W" THEN <<row, column>> ELSE @,
                !.BK_Location = IF probed /\ allyColor = "B" THEN <<row, column>> ELSE @]

\* getKingMoves: each candidate square is probed with the king's recorded
\* location moved onto it (the board is left as it is), and the recorded
\* location is then set to the square passed in.
getKingMoves(board, wtm, row, column, a) ==
  LET allyColor == IF wtm THEN "W" ELSE "B"
      Candidate(d) ==
        LET endRow == row + KingDirections[d][1]
            endColumn == column + KingDirections[d][2]
        IN  OnBoard(endRow, endColumn) /\ Color(board[endRow][endColumn]) # allyColor
      Step(d) ==
        LET endRow == row + KingDirections[d][1]
            endColumn == column + KingDirections[d][2]
            probe == IF allyColor = "W"
                     THEN checkForPinsAndChecks(board, wtm, <<endRow, endColumn>>,
                                                a.BK_Location)
                     ELSE checkForPinsAndChecks(board, wtm, a.WK_Location,
                                                <<endRow, endColumn>>)
        IN  IF Candidate(d) /\ ~probe.inCheck
            THEN <<Move(<<row, column>>, <<endRow, endColumn>>, board, FALSE, FALSE, FALSE)>>
            ELSE <<>>
      probed == \E d \in 1..8 : Candidate(d)
  IN  [a EXCEPT !.moves = @ \o Step(1) \o Step(2) \o Step(3) \o Step(4)
                            \o Step(5) \o Step(6) \o Step(7) \o Step(8),
                !.WK_Location = IF probed /\ allyColor = "W" THEN <<row, column>> ELSE @,
                !.BK_Location = IF probed /\ allyColor = "B" THEN <<row, column>> ELSE @]

\* The body of getAllPossibleMoves' double loop for one square.
MovesOfSquare(board, wtm, ep, row, column, a) ==
  LET turn == Color(board[row][column])
      current_piece == Kind(board[row][column])
  IN  IF (turn = "W" /\ wtm) \/ (turn = "B" /\ ~wtm)
      THEN CASE current_piece = "P" -> getPawnMoves(board, wtm, ep, row, column, a)
             [] current_piece = "R" -> getRookMoves(board, wtm, row, column, a)
             [] current_piece = "N" -> getKnightMoves(board, wtm, row, column, a)
             [] current_piece = "B" -> getBishopMoves(board, wtm, row, column, a)
             [] current_piece = "Q" -> getQueenMoves(board, wtm, row, column, a)
             [] current_piece = "K" -> getKingMoves(board, wtm, row, column, a)
             [] OTHER -> a
      ELSE a

\* The inner loop over the columns first..last of one row, run as its first
\* half followed by its second half.
RECURSIVE ColumnsFrom(_, _, _, _, _, _, _)
ColumnsFrom(board, wtm, ep, row, first, last, a) ==
  IF first = last THEN MovesOfSquare(board, wtm, ep, row, first, a)
  ELSE Then(ColumnsFrom(board, wtm, ep, row, first, (first + last) \div 2, a),
            LAMBDA half : ColumnsFrom(board, wtm, ep, row, (first + last) \div 2 + 1,
                                      last, half))

\* The outer loop over the rows first..last, run in the same way.
RECURSIVE AllFrom(_, _, _, _, _, _)
AllFrom(board, wtm, ep, first, last, a) ==
  IF first = last THEN ColumnsFrom(board, wtm, ep, first, 0, 7, a)
  ELSE Then(AllFrom(board, wtm, ep, first, (first + last) \div 2, a),
            LAMBDA half : AllFrom(board, wtm, ep, (first + last) \div 2 + 1, last, half))

\* getAllPossibleMoves, from an accumulator holding an empty list.
getAllPossibleMoves(board, wtm, ep, pinList, WK, BK) ==
  AllFrom(board, wtm, ep, 0, 7,
          [moves |-> <<>>, pins |-> pinList, WK_Location |-> WK, BK_Location |-> BK])

(***************************************************************************)
(* The engine's state as one record s (the fields of a ChessGame), and its *)
(* methods as functions from state to state.                               *)
(***************************************************************************)
\* validSquaresToBlockOrCapture for a checker that is not a knight: the
\* squares from the king along the check direction, up to the checker's.
RECURSIVE BlockSquares(_, _, _, _)
BlockSquares(kingRow, kingColumn, check, i) ==
  IF i > 7 THEN <<>>
  ELSE LET validSquare == <<kingRow + check[3] * i, kingColumn + check[4] * i>>
       IN  IF validSquare[1] = check[1] /\ validSquare[2] = check[2]
           THEN <<validSquare>>
           ELSE <<validSquare>> \o BlockSquares(kingRow, kingColumn, check, i + 1)

InList(x, list) == \E n \in 1..Len(list) : list[n] = x

\* for i in range(len(validMoves) - 1, -1, -1): remove the moves of pieces
\* other than the king that do not end on a valid square (i is 1-based here).
RECURSIVE KeepBlocksAndCaptures(_, _, _)
KeepBlocksAndCaptures(validMoves, i, validSquares) ==
  IF i = 0 THEN validMoves
  ELSE IF Kind(validMoves[i].movedPiece) # "K"
          /\ ~InList(<<validMoves[i].endRow, validMoves[i].endColumn>>, validSquares)
  THEN Then(RemoveMove(validMoves, validMoves[i]),
            LAMBDA rest : KeepBlocksAndCaptures(rest, i - 1, validSquares))
  ELSE KeepBlocksAndCaptures(validMoves, i - 1, validSquares)

\* MultipleCheck that never holds: a double check is answered as a single one.
\* C21_DoubleCheck fails with it.
MultipleCheck_Never(found) == FALSE

\* getValidMovesAdvanced, the branch taken when inCheckByPiece is set and
\* len(checks) is not 1: the king alone is asked for its moves.
MultipleCheck(found) == found.inCheck /\ Len(found.checks) # 1

\* getValidMovesAdvanced: the returned list and the state it leaves.  It
\* assigns inCheckByPiece, pins and checks, and the generators it calls
\* consume pins and overwrite the king locations; it assigns neither
\* checkmate nor stalemate.
getValidMovesAdvanced(s) ==
  Then(checkForPinsAndChecks(s.ChessBoard, s.whiteToMove, s.WK_Location, s.BK_Location),
       LAMBDA found :
         LET kingRow == IF s.whiteToMove THEN s.WK_Location[1] ELSE s.BK_Location[1]
             kingColumn == IF s.whiteToMove THEN s.WK_Location[2] ELSE s.BK_Location[2]
             check == found.checks[1]
             pieceCreatingCheck == s.ChessBoard[check[1]][check[2]]
             validSquaresToBlockOrCapture ==
               IF Kind(pieceCreatingCheck) = "N" THEN << <<check[1], check[2]>> >>
               ELSE BlockSquares(kingRow, kingColumn, check, 1)
             gen ==
               IF MultipleCheck(found)
               THEN getKingMoves(s.ChessBoard, s.whiteToMove, kingRow, kingColumn,
                                 [moves |-> <<>>, pins |-> found.pins,
                                  WK_Location |-> s.WK_Location,
                                  BK_Location |-> s.BK_Location])
               ELSE Then(getAllPossibleMoves(s.ChessBoard, s.whiteToMove,
                                             s.enPassantPossible, found.pins,
                                             s.WK_Location, s.BK_Location),
                         LAMBDA all :
                           IF found.inCheck
                           THEN Then(validSquaresToBlockOrCapture,
                                     LAMBDA squares :
                                       [all EXCEPT !.moves =
                                          KeepBlocksAndCaptures(all.moves, Len(all.moves),
                                                                squares)])
                           ELSE all)
         IN  Then(gen,
                  LAMBDA after :
                    [validMoves |-> after.moves,
                     state |-> [s EXCEPT !.inCheckByPiece = found.inCheck,
                                         !.pins = after.pins,
                                         !.checks = found.checks,
                                         !.WK_Location = after.WK_Location,
                                         !.BK_Location = after.BK_Location]]))

\* updateCastleRights with the two sides of a rook's home rank exchanged.
\* C6_CastleRevocation fails with it.
updateCastleRights_SidesExchanged(rights, move) ==
  IF move.movedPiece = "WR" /\ move.startRow = 7 /\ move.startColumn = 0
  THEN [rights EXCEPT !.WKs = FALSE]
  ELSE IF move.movedPiece = "WR" /\ move.startRow = 7 /\ move.startColumn = 7
  THEN [rights EXCEPT !.WQs = FALSE]
  ELSE IF move.movedPiece = "BR" /\ move.startRow = 0 /\ move.startColumn = 0
  THEN [rights EXCEPT !.BKs = FALSE]
  ELSE IF move.movedPiece = "BR" /\ move.startRow = 0 /\ move.startColumn = 7
  THEN [rights EXCEPT !.BQs = FALSE]
  ELSE IF move.movedPiece = "WK" THEN [rights EXCEPT !.WKs = FALSE, !.WQs = FALSE]
  ELSE IF move.movedPiece = "BK" THEN [rights EXCEPT !.BKs = FALSE, !.BQs = FALSE]
  ELSE rights

\* updateCastleRights granting the four rights anew whenever a pawn moves.
\* C19_CastleMonotone fails with it.
updateCastleRights_Regranting(rights, move) ==
  IF Kind(move.movedPiece) = "P" THEN CastleRights(TRUE, TRUE, TRUE, TRUE)
  ELSE IF move.movedPiece = "WR" /\ move.startRow = 7 /\ move.startColumn = 0
  THEN [rights EXCEPT !.WQs = FALSE]
  ELSE IF move.movedPiece = "WR" /\ move.startRow = 7 /\ move.startColumn = 7
  THEN [rights EXCEPT !.WKs = FALSE]
  ELSE IF move.movedPiece = "BR" /\ move.startRow = 0 /\ move.startColumn = 0
  THEN [rights EXCEPT !.BQs = FALSE]
  ELSE IF move.movedPiece = "BR" /\ move.startRow = 0 /\ move.startColumn = 7
  THEN [rights EXCEPT !.BKs = FALSE]
  ELSE IF move.movedPiece = "WK" THEN [rights EXCEPT !.WKs = FALSE, !.WQs = FALSE]
  ELSE IF move.movedPiece = "BK" THEN [rights EXCEPT !.BKs = FALSE, !.BQs = FALSE]
  ELSE rights

\* updateCastleRights, on the rights record.
updateCastleRights(rights, move) ==
  IF move.movedPiece = "WR"
  THEN IF move.startRow = 7
       THEN IF move.startColumn = 0 THEN [rights EXCEPT !.WQs = FALSE]
            ELSE IF move.startColumn = 7 THEN [rights EXCEPT !.WKs = FALSE]
            ELSE rights
       ELSE rights
  ELSE IF move.movedPiece = "BR"
  THEN IF move.startRow = 0
       THEN IF move.startColumn = 0 THEN [rights EXCEPT !.BQs = FALSE]
            ELSE IF move.startColumn = 7 THEN [rights EXCEPT !.BKs = FALSE]
            ELSE rights
       ELSE rights
  ELSE IF move.movedPiece = "WK" THEN [rights EXCEPT !.WKs = FALSE, !.WQs = FALSE]
  ELSE IF move.movedPiece = "BK" THEN [rights EXCEPT !.BKs = FALSE, !.BQs = FALSE]
  ELSE rights

\* A column index as a Python list reads it: a negative index counts from the
\* end of the row.
Subscript(i) == IF i < 0 THEN i + 8 ELSE i

\* The board after processMove's assignments, in the source's order.
BoardAfterMove(board, move) ==
  LET b1 == [board EXCEPT ![move.startRow][move.startColumn] = "--"]
      b2 == [b1 EXCEPT ![move.endRow][move.endColumn] = move.movedPiece]
      b3 == IF move.isEnPassant
            THEN [b2 EXCEPT ![move.startRow][move.endColumn] = "--"]
            ELSE b2
      b4 == IF move.isPawnPromotion
            THEN [b3 EXCEPT ![move.endRow][move.endColumn] = QueenOf(Color(move.movedPiece))]
            ELSE b3
  IN  IF move.isCastleMove
      THEN IF move.endColumn - move.startColumn = 2
           THEN [b4 EXCEPT ![move.endRow][move.endColumn - 1] = b4[move.endRow][move.endColumn + 1],
                           ![move.endRow][move.endColumn + 1] = "--"]
           ELSE [b4 EXCEPT ![move.endRow][move.endColumn + 1] =
                             b4[move.endRow][Subscript(move.endColumn - 2)],
                           ![move.endRow][Subscript(move.endColumn - 2)] = "--"]
      ELSE b4

\* The en-passant square processMove leaves.
EnPassantAfterMove(move) ==
  IF Kind(move.movedPiece) = "P" /\ Abs(move.startRow - move.endRow) = 2
  THEN <<(move.startRow + move.endRow) \div 2, move.endColumn>>
  ELSE <<>>

processMove(s, move) ==
  LET rights == updateCastleRights(s.currentCastleRight, move)
  IN  [s EXCEPT
        !.WK_Location = IF move.movedPiece = "WK" THEN <<move.endRow, move.endColumn>> ELSE @,
        !.BK_Location = IF move.movedPiece = "BK" THEN <<move.endRow, move.endColumn>> ELSE @,
        !.ChessBoard = BoardAfterMove(@, move),
        !.moveLog = Append(@, move),
        !.whiteToMove = ~@,
        !.enPassantPossible = EnPassantAfterMove(move),
        !.currentCastleRight = rights,
        !.castleRightsLog = Append(@, rights)]

\* The board after undoMove's assignments, in the source's order.
BoardAfterUndo(board, previousMove) ==
  LET b1 == [board EXCEPT ![previousMove.startRow][previousMove.startColumn] =
                            previousMove.movedPiece]
      b2 == [b1 EXCEPT ![previousMove.endRow][previousMove.endColumn] =
                         previousMove.capturedPiece]
      b3 == IF previousMove.isEnPassant
            THEN [b2 EXCEPT ![previousMove.endRow][previousMove.endColumn] = "--",
                            ![previousMove.startRow][previousMove.endColumn] =
                              previousMove.capturedPiece]
            ELSE b2
  IN  IF previousMove.isCastleMove
      THEN IF previousMove.endColumn - previousMove.startColumn = 2
           THEN [b3 EXCEPT ![previousMove.endRow][previousMove.endColumn + 1] =
                             b3[previousMove.endRow][previousMove.endColumn - 1],
                           ![previousMove.endRow][previousMove.endColumn - 1] = "--"]
           ELSE [b3 EXCEPT ![previousMove.endRow][Subscript(previousMove.endColumn - 2)] =
                             b3[previousMove.endRow][previousMove.endColumn + 1],
                           ![previousMove.endRow][previousMove.endColumn + 1] = "--"]
      ELSE b3

\* EnPassantAfterUndo without the clearing after a two-square advance is
\* undone.  C35_UniqueIdentities fails with it.
EnPassantAfterUndo_NotCleared(ep, previousMove) ==
  IF previousMove.isEnPassant
  THEN <<previousMove.endRow, previousMove.endColumn>>
  ELSE ep

\* The en-passant square undoMove leaves.
EnPassantAfterUndo(ep, previousMove) ==
  IF Kind(previousMove.movedPiece) = "P"
     /\ Abs(previousMove.startRow - previousMove.endRow) = 2
  THEN <<>>
  ELSE IF previousMove.isEnPassant
  THEN <<previousMove.endRow, previousMove.endColumn>>
  ELSE ep

\* undoMove without its castleRightsLog.pop().  C7_HistoryLength fails with it.
PopRights_Omitted(log) == log

\* castleRightsLog.pop()
PopRights(log) == SubSeq(log, 1, Len(log) - 1)

\* undoMove without its test of len(self.moveLog): the turn passes even when
\* there is nothing to undo.  C13_UndoOnEmpty fails with it.
undoMove_Unguarded(s) ==
  IF Len(s.moveLog) # 0
  THEN LET previousMove == s.moveLog[Len(s.moveLog)]
           log == PopRights(s.castleRightsLog)
       IN  [s EXCEPT
             !.moveLog = SubSeq(@, 1, Len(@) - 1),
             !.WK_Location = IF previousMove.movedPiece = "WK"
                             THEN <<previousMove.startRow, previousMove.startColumn>> ELSE @,
             !.BK_Location = IF previousMove.movedPiece = "BK"
                             THEN <<previousMove.startRow, previousMove.startColumn>> ELSE @,
             !.ChessBoard = BoardAfterUndo(@, previousMove),
             !.whiteToMove = ~@,
             !.enPassantPossible = EnPassantAfterUndo(@, previousMove),
             !.castleRightsLog = log,
             !.currentCastleRight = log[Len(log)],
             !.checkmate = FALSE,
             !.stalemate = FALSE]
  ELSE [s EXCEPT !.whiteToMove = ~@, !.checkmate = FALSE, !.stalemate = FALSE]

\* undoMove without its two last assignments: checkmate and stalemate are
\* left as they were.  C30_FlagClearing fails with it.
undoMove_FlagsKept(s) ==
  IF Len(s.moveLog) # 0
  THEN LET previousMove == s.moveLog[Len(s.moveLog)]
           log == PopRights(s.castleRightsLog)
       IN  [s EXCEPT
             !.moveLog = SubSeq(@, 1, Len(@) - 1),
             !.WK_Location = IF previousMove.movedPiece = "WK"
                             THEN <<previousMove.startRow, previousMove.startColumn>> ELSE @,
             !.BK_Location = IF previousMove.movedPiece = "BK"
                             THEN <<previousMove.startRow, previousMove.startColumn>> ELSE @,
             !.ChessBoard = BoardAfterUndo(@, previousMove),
             !.whiteToMove = ~@,
             !.enPassantPossible = EnPassantAfterUndo(@, previousMove),
             !.castleRightsLog = log,
             !.currentCastleRight = log[Len(log)]]
  ELSE s

undoMove(s) ==
  IF Len(s.moveLog) # 0
  THEN LET previousMove == s.moveLog[Len(s.moveLog)]
           log == PopRights(s.castleRightsLog)
       IN  [s EXCEPT
             !.moveLog = SubSeq(@, 1, Len(@) - 1),
             !.WK_Location = IF previousMove.movedPiece = "WK"
                             THEN <<previousMove.startRow, previousMove.startColumn>> ELSE @,
             !.BK_Location = IF previousMove.movedPiece = "BK"
                             THEN <<previousMove.startRow, previousMove.startColumn>> ELSE @,
             !.ChessBoard = BoardAfterUndo(@, previousMove),
             !.whiteToMove = ~@,
             !.enPassantPossible = EnPassantAfterUndo(@, previousMove),
             !.castleRightsLog = log,
             !.currentCastleRight = log[Len(log)],
             !.checkmate = FALSE,
             !.stalemate = FALSE]
  ELSE [s EXCEPT !.checkmate = FALSE, !.stalemate = FALSE]

(***************************************************************************)
(* The attack query, the castle generators and getValidMovesNaive.  Each   *)
(* returns its result together with the state it leaves: the query runs    *)
(* getAllPossibleMoves, which consumes self.pins and moves the recorded    *)
(* king locations.                                                         *)
(***************************************************************************)
\* squareUnderAttack: the opponent's possible moves are generated with the
\* turn switched, and one of them ends on the square.
squareUnderAttack(s, row, column) ==
  Then(getAllPossibleMoves(s.ChessBoard, ~s.whiteToMove, s.enPassantPossible,
                           s.pins, s.WK_Location, s.BK_Location),
       LAMBDA opponentMoves :
         [attacked |-> \E i \in 1..Len(opponentMoves.moves) :
                         /\ opponentMoves.moves[i].endRow = row
                         /\ opponentMoves.moves[i].endColumn = column,
          state |-> [s EXCEPT !.pins = opponentMoves.pins,
                              !.WK_Location = opponentMoves.WK_Location,
                              !.BK_Location = opponentMoves.BK_Location]])

\* inCheck: squareUnderAttack on the recorded location of the mover's king.
inCheck(s) ==
  IF s.whiteToMove
  THEN squareUnderAttack(s, s.WK_Location[1], s.WK_Location[2])
  ELSE squareUnderAttack(s, s.BK_Location[1], s.BK_Location[2])

\* The castle move getKingSideCastleMoves and getQueenSideCastleMoves append.
CastleMove(s, row, column, endColumn) ==
  Move(<<row, column>>, <<row, endColumn>>, s.ChessBoard, FALSE, FALSE, TRUE)

\* The truth value Python gives a string used as a condition.
Truthy(string) == string # ""

\* The two squares of the king's path are not under attack ("not ... and not
\* ...": the second query is made only if the first finds no attack), and
\* the castle move ending on endColumn is appended.
AppendUnlessAttacked(s, row, column, passed, endColumn, moves) ==
  Then(squareUnderAttack(s, row, passed),
       LAMBDA first :
         IF first.attacked THEN [moves |-> moves, state |-> first.state]
         ELSE Then(squareUnderAttack(first.state, row, endColumn),
                   LAMBDA second :
                     [moves |-> IF second.attacked THEN moves
                                ELSE Append(moves, CastleMove(second.state, row,
                                                              column, endColumn)),
                      state |-> second.state]))

getKingSideCastleMoves(s, row, column, moves) ==
  IF s.ChessBoard[row][column + 1] = "--" /\ s.ChessBoard[row][column + 2] = "--"
  THEN AppendUnlessAttacked(s, row, column, column + 1, column + 2, moves)
  ELSE [moves |-> moves, state |-> s]

getQueenSideCastleMoves(s, row, column, moves) ==
  IF /\ s.ChessBoard[row][Subscript(column - 1)] = "--"
     /\ s.ChessBoard[row][Subscript(column - 2)] = "--"
     /\ Truthy(s.ChessBoard[row][Subscript(column - 3)])
  THEN AppendUnlessAttacked(s, row, column, column - 1, column - 2, moves)
  ELSE [moves |-> moves, state |-> s]

\* getCastleMoves(row, column, moves, allyColor); allyColor is not read.
getCastleMoves(s, row, column, moves) ==
  Then(squareUnderAttack(s, row, column),
       LAMBDA here :
         IF here.attacked THEN [moves |-> moves, state |-> here.state]
         ELSE Then(IF \/ (here.state.currentCastleRight.WKs /\ here.state.whiteToMove)
                      \/ (here.state.currentCastleRight.BKs /\ ~here.state.whiteToMove)
                   THEN getKingSideCastleMoves(here.state, row, column, moves)
                   ELSE [moves |-> moves, state |-> here.state],
                   LAMBDA kingSide :
                     IF \/ (kingSide.state.currentCastleRight.WQs
                            /\ kingSide.state.whiteToMove)
                        \/ (kingSide.state.currentCastleRight.BQs
                            /\ ~kingSide.state.whiteToMove)
                     THEN getQueenSideCastleMoves(kingSide.state, row, column,
                                                  kingSide.moves)
                     ELSE kingSide))

\* One pass of getValidMovesNaive's loop, for the index i (1-based) of the
\* list as it stands: the move is processed, the turn given back to the
\* mover, the move removed if the mover is in check, and the move undone.
NaivePass(acc, i) ==
  Then(processMove(acc.state, acc.moves[i]),
       LAMBDA processed :
         Then(inCheck([processed EXCEPT !.whiteToMove = ~@]),
              LAMBDA query :
                [moves |-> IF query.attacked THEN RemoveMove(acc.moves, acc.moves[i])
                           ELSE acc.moves,
                 state |-> undoMove([query.state EXCEPT !.whiteToMove = ~@])]))

\* for i in range(len(allPossibleMoves) - 1, -1, -1): the passes for the
\* indexes last down to first, the upper half before the lower half.
RECURSIVE NaiveLoop(_, _, _)
NaiveLoop(acc, first, last) ==
  IF first > last THEN acc
  ELSE IF first = last THEN NaivePass(acc, first)
  ELSE Then(NaiveLoop(acc, (first + last) \div 2 + 1, last),
            LAMBDA half : NaiveLoop(half, first, (first + last) \div 2))

\* getValidMovesNaive: the list it returns and the state it leaves.
getValidMovesNaive(s) ==
  Then(getAllPossibleMoves(s.ChessBoard, s.whiteToMove, s.enPassantPossible,
                           s.pins, s.WK_Location, s.BK_Location),
       LAMBDA all :
         Then([s EXCEPT !.pins = all.pins, !.WK_Location = all.WK_Location,
                        !.BK_Location = all.BK_Location],
              LAMBDA generated :
                Then(IF generated.whiteToMove
                     THEN getCastleMoves(generated, generated.WK_Location[1],
                                         generated.WK_Location[2], all.moves)
                     ELSE getCastleMoves(generated, generated.BK_Location[1],
                                         generated.BK_Location[2], all.moves),
                     LAMBDA castled :
                       Then(NaiveLoop(castled, 1, Len(castled.moves)),
                            LAMBDA kept :
                              Then(IF Len(kept.moves) = 0
                                   THEN Then(inCheck(kept.state),
                                             LAMBDA query :
                                               [query.state EXCEPT
                                                  !.checkmate = query.attacked,
                                                  !.stalemate = ~query.attacked])
                                   ELSE [kept.state EXCEPT !.checkmate = FALSE,
                                                           !.stalemate = FALSE],
                                   LAMBDA flagged :
                                     [validMoves |-> kept.moves,
                                      state |-> [flagged EXCEPT
                                        !.enPassantPossible = s.enPassantPossible,
                                        !.currentCastleRight = s.currentCastleRight]])))))

(***************************************************************************)
(* The driver: main() of src/ChessMain.py.                                 *)
(*                                                                         *)
(* The games explored: the driver starts from the constructor's state,     *)
(* with the board the constructor installs or with the standard board it   *)
(* holds commented out, follows one of the opening lines below (each move  *)
(* taken from the list getValidMovesAdvanced returned) and then plays any  *)
(* legal move for MaxPly further plies; it may undo at any time.           *)
(***************************************************************************)
\* 1.e3 a5 2.Ke2 Ra6 3.Kd3 Rb6 4.c4 Rb5 5.Ke4 h6 6.c5 g6 7.Ke5 d5: the white
\* king, a white pawn and the black pawn that just advanced two squares share
\* rank 5 with a black rook.
RankLine ==
  << <<6, 4, 5, 4>>,
     <<1, 0, 3, 0>>,
     <<7, 4, 6, 4>>,
     <<0, 0, 2, 0>>,
     <<6, 4, 5, 3>>,
     <<2, 0, 2, 1>>,
     <<6, 2, 4, 2>>,
     <<2, 1, 3, 1>>,
     <<5, 3, 4, 4>>,
     <<1, 7, 2, 7>>,
     <<4, 2, 3, 2>>,
     <<1, 6, 2, 6>>,
     <<4, 4, 3, 4>>,
     <<1, 3, 3, 3>> >>

\* 1.e3 a5 2.Ke2 Ra6 3.Kd3 Rb6 4.c4 Rb5 5.Ke4 h6 6.c5 d5+: the pawn that just
\* advanced two squares gives check, beside a white pawn.
PawnCheckLine ==
  << <<6, 4, 5, 4>>,
     <<1, 0, 3, 0>>,
     <<7, 4, 6, 4>>,
     <<0, 0, 2, 0>>,
     <<6, 4, 5, 3>>,
     <<2, 0, 2, 1>>,
     <<6, 2, 4, 2>>,
     <<2, 1, 3, 1>>,
     <<5, 3, 4, 4>>,
     <<1, 7, 2, 7>>,
     <<4, 2, 3, 2>>,
     <<1, 3, 3, 3>> >>

\* 1.d4 e6 2.Nc3 Bb4: the knight on c3 is pinned.
KnightPinLine ==
  << <<6, 3, 4, 3>>,
     <<1, 4, 2, 4>>,
     <<7, 1, 5, 2>>,
     <<0, 5, 4, 1>> >>

\* 1.e4 e5 2.f4 exf4 3.Nf3 d5 4.Nc3 Qe7: the pawn on e4 is pinned on its file.
PawnPinLine ==
  << <<6, 4, 4, 4>>,
     <<1, 4, 3, 4>>,
     <<6, 5, 4, 5>>,
     <<3, 4, 4, 5>>,
     <<7, 6, 5, 5>>,
     <<1, 3, 3, 3>>,
     <<7, 1, 5, 2>>,
     <<0, 3, 1, 4>> >>

\* 1.e4 d5 2.exd5 Qxd5 3.a4 a6 4.Ra3 Qe5+ 5.Re3 h6: the rook on e3 is pinned
\* on the e-file.
RookPinLine ==
  << <<6, 4, 4, 4>>,
     <<1, 3, 3, 3>>,
     <<4, 4, 3, 3>>,
     <<0, 3, 3, 3>>,
     <<6, 0, 4, 0>>,
     <<1, 0, 2, 0>>,
     <<7, 0, 5, 0>>,
     <<3, 3, 3, 4>>,
     <<5, 0, 5, 4>>,
     <<1, 7, 2, 7>> >>

\* 1.a4 h5 2.h4 a5: all four rooks can leave their home squares.
RookLine ==
  << <<6, 0, 4, 0>>,
     <<1, 7, 3, 7>>,
     <<6, 7, 4, 7>>,
     <<1, 0, 3, 0>> >>

\* 1.d4 e6 2.Bd2 Bb4: the bishop on d2 is pinned on its diagonal.
BishopPinLine ==
  << <<6, 3, 4, 3>>,
     <<1, 4, 2, 4>>,
     <<7, 2, 6, 3>>,
     <<0, 5, 4, 1>> >>

\* 1.d4 e6 2.Qd2 Bb4: the queen on d2 is pinned on its diagonal.
QueenPinLine ==
  << <<6, 3, 4, 3>>,
     <<1, 4, 2, 4>>,
     <<7, 3, 6, 3>>,
     <<0, 5, 4, 1>> >>

\* 1.Nc3 d5 2.Nb5 f6 3.c4 h6 4.Qa4 h5: the knight on b5 shields the black king
\* from the queen on a4 and can give check from c7 and from d6.
DoubleCheckLine ==
  << <<7, 1, 5, 2>>,
     <<1, 3, 3, 3>>,
     <<5, 2, 3, 1>>,
     <<1, 5, 2, 5>>,
     <<6, 2, 4, 2>>,
     <<1, 7, 2, 7>>,
     <<7, 3, 4, 0>>,
     <<2, 7, 3, 7>> >>

\* 1.h4 g5 2.hxg5 h6 3.gxh6 Nf6 4.h7 Rg8: the pawn on h7 promotes on h8 and,
\* capturing, on g8.
PromotionLine ==
  << <<6, 7, 4, 7>>,
     <<1, 6, 3, 6>>,
     <<4, 7, 3, 6>>,
     <<1, 7, 2, 7>>,
     <<3, 6, 2, 7>>,
     <<0, 6, 2, 5>>,
     <<2, 7, 1, 7>>,
     <<0, 7, 0, 6>> >>

\* 1.a3 h5 2.g4 hxg4 3.h3 gxh3 4.Nf3 h2 5.Rg1: the black pawn on h2 promotes on
\* h1 and, capturing, on g1.
BlackPromotionLine ==
  << <<6, 0, 5, 0>>,
     <<1, 7, 3, 7>>,
     <<6, 6, 4, 6>>,
     <<3, 7, 4, 6>>,
     <<6, 7, 5, 7>>,
     <<4, 6, 5, 7>>,
     <<7, 6, 5, 5>>,
     <<5, 7, 6, 7>>,
     <<7, 7, 7, 6>> >>

\* 1.d3 c6 2.Kd2 Qa5+ 3.Ke3 Qe1 4.Ke4 h6: the pawn on e2 is pinned on its file
\* by the queen behind it, the king standing two squares in front of it.
PawnBeforeKingLine ==
  << <<6, 3, 5, 3>>,
     <<1, 2, 2, 2>>,
     <<7, 4, 6, 3>>,
     <<0, 3, 3, 0>>,
     <<6, 3, 5, 4>>,
     <<3, 0, 7, 4>>,
     <<5, 4, 4, 4>>,
     <<1, 7, 2, 7>> >>

\* 1.e4 e5 2.Nf3 Nf6 3.Bc4 Bc5: both sides may castle on the king's side.
KingSideLine ==
  << <<6, 4, 4, 4>>,
     <<1, 4, 3, 4>>,
     <<7, 6, 5, 5>>,
     <<0, 6, 2, 5>>,
     <<7, 5, 4, 2>>,
     <<0, 5, 3, 2>> >>

\* 1.d4 d5 2.Bf4 Bf5 3.Qd3 Qd6: c1 and d1 (c8 and d8) are empty, the knight
\* still stands on b1 (b8).
QueenSideLine ==
  << <<6, 3, 4, 3>>,
     <<1, 3, 3, 3>>,
     <<7, 2, 4, 5>>,
     <<0, 2, 3, 5>>,
     <<7, 3, 5, 3>>,
     <<0, 3, 2, 3>> >>

\* 1.g3 d5 2.Bg2 d4 3.Nf3 d3 4.a3 dxe2: f1 and g1 are empty and the black pawn
\* on e2 attacks f1.
PawnBesideKingLine ==
  << <<6, 6, 5, 6>>,
     <<1, 3, 3, 3>>,
     <<7, 5, 6, 6>>,
     <<3, 3, 4, 3>>,
     <<7, 6, 5, 5>>,
     <<4, 3, 5, 3>>,
     <<6, 0, 5, 0>>,
     <<5, 3, 6, 4>> >>

\* 1.e4 Nf6 2.Nf3 Nxe4 3.Bc4 Ng3 4.a3 Nxh1: the white rook was captured on
\* h1, where the black knight now stands; f1 and g1 are empty.
CapturedRookLine ==
  << <<6, 4, 4, 4>>,
     <<0, 6, 2, 5>>,
     <<7, 6, 5, 5>>,
     <<2, 5, 4, 4>>,
     <<7, 5, 4, 2>>,
     <<4, 4, 5, 6>>,
     <<6, 0, 5, 0>>,
     <<5, 6, 7, 7>> >>

\* 1.h3 Nc6 2.h4 Nd4 3.g3 Nb3 4.g4 Nd4 5.b4: the pawn advances two squares
\* over b3, where the black knight stood three moves before, within reach of
\* the pawns on a2 and c2.
UndoneAdvanceLine ==
  << <<6, 7, 5, 7>>,
     <<0, 1, 2, 2>>,
     <<5, 7, 4, 7>>,
     <<2, 2, 4, 3>>,
     <<6, 6, 5, 6>>,
     <<4, 3, 5, 1>>,
     <<5, 6, 4, 6>>,
     <<5, 1, 4, 3>>,
     <<6, 1, 4, 1>> >>

\* The starting boards and the opening line played from each.
Openings ==
  << [board |-> ConstructorBoard, moves |-> <<>>],
     [board |-> StandardBoard, moves |-> <<>>],
     [board |-> StandardBoard, moves |-> RankLine],
     [board |-> StandardBoard, moves |-> PawnCheckLine],
     [board |-> StandardBoard, moves |-> KnightPinLine],
     [board |-> StandardBoard, moves |-> PawnPinLine],
     [board |-> StandardBoard, moves |-> RookPinLine],
     [board |-> StandardBoard, moves |-> RookLine],
     [board |-> StandardBoard, moves |-> BishopPinLine],
     [board |-> StandardBoard, moves |-> QueenPinLine],
     [board |-> StandardBoard, moves |-> DoubleCheckLine],
     [board |-> StandardBoard, moves |-> PromotionLine],
     [board |-> StandardBoard, moves |-> BlackPromotionLine],
     [board |-> StandardBoard, moves |-> PawnBeforeKingLine],
     [board |-> StandardBoard, moves |-> KingSideLine],
     [board |-> StandardBoard, moves |-> QueenSideLine],
     [board |-> StandardBoard, moves |-> PawnBesideKingLine],
     [board |-> StandardBoard, moves |-> CapturedRookLine],
     [board |-> StandardBoard, moves |-> UndoneAdvanceLine] >>

VARIABLES
  ChessBoard,          \* self.ChessBoard
  whiteToMove,         \* self.whiteToMove
  moveLog,             \* self.moveLog
  WK_Location,         \* self.WK_Location
  BK_Location,         \* self.BK_Location
  checkmate,           \* self.checkmate
  stalemate,           \* self.stalemate
  pins,                \* self.pins
  checks,              \* self.checks
  inCheckByPiece,      \* self.inCheckByPiece
  enPassantPossible,   \* self.enPassantPossible
  currentCastleRight,  \* self.currentCastleRight
  castleRightsLog,     \* self.castleRightsLog
  validMoves,          \* main's validMoves
  moveMade,            \* main's moveMade: validMoves is to be refreshed
  opening,             \* the opening being followed (an index of Openings)
  called,              \* the function called last, other than by main ("" if none)
  args,                \* its arguments
  returned,            \* <<value>> it returned (<<>> for None or after an exception)
  raised,              \* the exception it raised ("" if none)
  depths               \* len(moveLog) after each processMove and undoMove it made

vars == <<ChessBoard, whiteToMove, moveLog, WK_Location, BK_Location, checkmate,
          stalemate, pins, checks, inCheckByPiece, enPassantPossible,
          currentCastleRight, castleRightsLog, validMoves, moveMade, opening,
          called, args, returned, raised, depths>>

\* The engine's fields and the driver's variables.
game == <<ChessBoard, whiteToMove, moveLog, WK_Location, BK_Location, checkmate,
          stalemate, pins, checks, inCheckByPiece, enPassantPossible,
          currentCastleRight, castleRightsLog>>
call == <<called, args, returned, raised, depths>>

\* The ChessGame object as a record.
GameState ==
  [ChessBoard |-> ChessBoard, whiteToMove |-> whiteToMove, moveLog |-> moveLog,
   WK_Location |-> WK_Location, BK_Location |-> BK_Location,
   checkmate |-> checkmate, stalemate |-> stalemate,
   pins |-> pins, checks |-> checks, inCheckByPiece |-> inCheckByPiece,
   enPassantPossible |-> enPassantPossible,
   currentCastleRight |-> currentCastleRight, castleRightsLog |-> castleRightsLog]

\* The ChessGame object becomes s.
Becomes(s) ==
  \E t \in {s} :
    /\ ChessBoard' = t.ChessBoard
    /\ whiteToMove' = t.whiteToMove
    /\ moveLog' = t.moveLog
    /\ WK_Location' = t.WK_Location
    /\ BK_Location' = t.BK_Location
    /\ checkmate' = t.checkmate
    /\ stalemate' = t.stalemate
    /\ pins' = t.pins
    /\ checks' = t.checks
    /\ inCheckByPiece' = t.inCheckByPiece
    /\ enPassantPossible' = t.enPassantPossible
    /\ currentCastleRight' = t.currentCastleRight
    /\ castleRightsLog' = t.castleRightsLog

\* The ChessGame object is s.
Is(s) ==
  /\ ChessBoard = s.ChessBoard
  /\ whiteToMove = s.whiteToMove
  /\ moveLog = s.moveLog
  /\ WK_Location = s.WK_Location
  /\ BK_Location = s.BK_Location
  /\ checkmate = s.checkmate
  /\ stalemate = s.stalemate
  /\ pins = s.pins
  /\ checks = s.checks
  /\ inCheckByPiece = s.inCheckByPiece
  /\ enPassantPossible = s.enPassantPossible
  /\ currentCastleRight = s.currentCastleRight
  /\ castleRightsLog = s.castleRightsLog

\* ChessGame.__init__ with the given board literal.
NewGame(board) ==
  [ChessBoard |-> board, whiteToMove |-> TRUE, moveLog |-> <<>>,
   WK_Location |-> <<7, 4>>, BK_Location |-> <<0, 4>>,
   checkmate |-> FALSE, stalemate |-> FALSE,
   pins |-> <<>>, checks |-> <<>>, inCheckByPiece |-> FALSE,
   enPassantPossible |-> <<>>,
   currentCastleRight |-> CastleRights(TRUE, TRUE, TRUE, TRUE),
   castleRightsLog |-> <<CastleRights(TRUE, TRUE, TRUE, TRUE)>>]

\* main() up to its first query: gameState = ChessGame(), validMoves pending.
Init ==
  \E o \in 1..Len(Openings) :
    /\ opening = o
    /\ Is(NewGame(Openings[o].board))
    /\ validMoves = <<>>
    /\ moveMade = TRUE
    /\ called = "" /\ args = <<>> /\ returned = <<>> /\ raised = "" /\ depths = <<>>

\* validMoves = gameState.getValidMovesAdvanced()
GetValidMoves ==
  /\ moveMade
  /\ \E r \in {getValidMovesAdvanced(GameState)} :
       /\ Becomes(r.state)
       /\ validMoves' = r.validMoves
  /\ moveMade' = FALSE
  /\ UNCHANGED <<opening, call>>

\* The choice of the driver's next move: the opening's while it lasts, then any.
MayPlay(move) ==
  LET n == Len(moveLog)
      book == Openings[opening].moves
  IN  IF n < Len(book)
      THEN <<move.startRow, move.startColumn, move.endRow, move.endColumn>> = book[n + 1]
      ELSE n < Len(book) + MaxPly

\* gameState.processMove(validMoves[i]); moveMade = True
ProcessMove ==
  /\ ~moveMade
  /\ \E i \in 1..Len(validMoves) :
       /\ MayPlay(validMoves[i])
       /\ Becomes(processMove(GameState, validMoves[i]))
  /\ moveMade' = TRUE
  /\ UNCHANGED <<validMoves, opening, call>>

\* The 'z' key: gameState.undoMove(); moveMade = True
UndoMove ==
  /\ Becomes(undoMove(GameState))
  /\ moveMade' = TRUE
  /\ UNCHANGED <<validMoves, opening, call>>

Next == GetValidMoves \/ ProcessMove \/ UndoMove

Spec == Init /\ [][Next]_vars

(***************************************************************************)
(* class Move called on its own: a Move is constructed from two squares,   *)
(* on or off the board, on the constructor's board, and rendered.          *)
(***************************************************************************)
\* The coordinates tried: the board's and OutOfRange more on either side.
Coordinates == (0 - OutOfRange)..(7 + OutOfRange)

\* The keyword arguments tried: (isPawnPromotion, isEnPassantMove, isCastleMove).
FlagChoices == {<<FALSE, FALSE, FALSE>>, <<TRUE, TRUE, TRUE>>}

\* ChessEngine.Move(start, end, gameState, ...)
ConstructMove ==
  /\ called = ""
  /\ \E start \in Coordinates \X Coordinates, end \in Coordinates \X Coordinates,
        flags \in FlagChoices :
       /\ args' = <<start, end, flags>>
       /\ \E r \in {NewMove(start, end, ChessBoard, flags[1], flags[2], flags[3])} :
            returned' = r.returned /\ raised' = r.raised
  /\ called' = "Move"
  /\ UNCHANGED <<game, validMoves, moveMade, opening, depths>>

\* move.getChessNotation() on the Move just constructed
RenderMove ==
  /\ called = "Move" /\ raised = ""
  /\ called' = "getChessNotation"
  /\ args' = returned
  /\ \E r \in {getChessNotation(returned[1])} :
       returned' = r.returned /\ raised' = r.raised
  /\ UNCHANGED <<game, validMoves, moveMade, opening, depths>>

MoveNext == ConstructMove \/ RenderMove

\* gameState = ChessGame(), no opening to follow.
ConstructorGame == Init /\ opening = 1

MoveSpec == ConstructorGame /\ [][MoveNext]_vars

(***************************************************************************)
(* ChessAI: the three move choosers, called on the game and on the list    *)
(* of valid moves the driver holds.                                        *)
(***************************************************************************)
materialValues == [K |-> 0, Q |-> 9, R |-> 5, N |-> 3, B |-> 3, P |-> 1]

CHECKMATE == 1000
STALEMATE == 0

\* scoreBoard's addition for one square.
SquareScore(square) ==
  IF Color(square) = "W" THEN materialValues[Kind(square)]
  ELSE IF Color(square) = "B" THEN 0 - materialValues[Kind(square)]
  ELSE 0

\* scoreBoard's inner loop over one row.
RowScore(row) ==
  SquareScore(row[0]) + SquareScore(row[1]) + SquareScore(row[2]) + SquareScore(row[3])
  + SquareScore(row[4]) + SquareScore(row[5]) + SquareScore(row[6]) + SquareScore(row[7])

scoreBoard(board) ==
  RowScore(board[0]) + RowScore(board[1]) + RowScore(board[2]) + RowScore(board[3])
  + RowScore(board[4]) + RowScore(board[5]) + RowScore(board[6]) + RowScore(board[7])

\* findRandomMove: the outcomes of random.randint(0, len(validMoves) - 1) and
\* of the subscription, randint raising ValueError on an empty range.
findRandomMove(moves) ==
  IF Len(moves) = 0
  THEN {[raised |-> "ValueError", returned |-> <<>>]}
  ELSE {[raised |-> "", returned |-> <<moves[index + 1]>>] :
          index \in 0..(Len(moves) - 1)}

\* One pass of findBestMoveGreedy's loop; acc holds gameState, maxScore and
\* bestMove (<<>> for None), and the lengths of moveLog after the calls of
\* processMove and undoMove made so far.
GreedyPass(acc, playerMove, turnMultiplier) ==
  Then(processMove(acc.state, playerMove), LAMBDA played :
    Then(IF played.checkmate THEN CHECKMATE
         ELSE IF played.stalemate THEN STALEMATE
         ELSE turnMultiplier * scoreBoard(played.ChessBoard), LAMBDA score :
      [state |-> undoMove(played),
       maxScore |-> IF score > acc.maxScore THEN score ELSE acc.maxScore,
       bestMove |-> IF score > acc.maxScore THEN <<playerMove>> ELSE acc.bestMove,
       depths |-> acc.depths \o <<Len(played.moveLog), Len(undoMove(played).moveLog)>>]))

\* The loop over validMoves[first..last] (1-based), run as its first half
\* followed by its second half.
RECURSIVE GreedyLoop(_, _, _, _, _)
GreedyLoop(acc, moves, first, last, turnMultiplier) ==
  IF first > last THEN acc
  ELSE IF first = last THEN GreedyPass(acc, moves[first], turnMultiplier)
  ELSE Then(GreedyLoop(acc, moves, first, (first + last) \div 2, turnMultiplier),
            LAMBDA half : GreedyLoop(half, moves, (first + last) \div 2 + 1, last,
                                     turnMultiplier))

\* findBestMoveGreedy(gameState, validMoves): the game it leaves and the move
\* it returns.
findBestMoveGreedy(s, moves) ==
  GreedyLoop([state |-> s, maxScore |-> 0 - CHECKMATE, bestMove |-> <<>>,
              depths |-> <<>>],
             moves, 1, Len(moves), IF s.whiteToMove THEN 1 ELSE -1)

\* OpponentPass without its gameState.undoMove(): the reply stays on the
\* history.  C29_StackDiscipline fails with it.
OpponentPass_NotUndone(acc, opponentMove, turnMultiplier) ==
  Then(getValidMovesAdvanced(processMove(acc.state, opponentMove)).state, LAMBDA replied :
    Then(IF replied.checkmate THEN (0 - turnMultiplier) * CHECKMATE
         ELSE IF replied.stalemate THEN STALEMATE
         ELSE (0 - turnMultiplier) * scoreBoard(replied.ChessBoard), LAMBDA score :
      [state |-> replied,
       opponentMaxScore |-> IF score > acc.opponentMaxScore THEN score
                            ELSE acc.opponentMaxScore,
       depths |-> acc.depths \o <<Len(replied.moveLog), Len(replied.moveLog)>>]))

\* One pass of findBestMove's inner loop; acc holds gameState and
\* opponentMaxScore, and the lengths of moveLog as in GreedyPass.
OpponentPass(acc, opponentMove, turnMultiplier) ==
  Then(getValidMovesAdvanced(processMove(acc.state, opponentMove)).state, LAMBDA replied :
    Then(IF replied.checkmate THEN (0 - turnMultiplier) * CHECKMATE
         ELSE IF replied.stalemate THEN STALEMATE
         ELSE (0 - turnMultiplier) * scoreBoard(replied.ChessBoard), LAMBDA score :
      [state |-> undoMove(replied),
       opponentMaxScore |-> IF score > acc.opponentMaxScore THEN score
                            ELSE acc.opponentMaxScore,
       depths |-> acc.depths \o <<Len(replied.moveLog), Len(undoMove(replied).moveLog)>>]))

\* The inner loop over opponentsMoves[first..last], run in the same way.
RECURSIVE OpponentLoop(_, _, _, _, _)
OpponentLoop(acc, opponentsMoves, first, last, turnMultiplier) ==
  IF first > last THEN acc
  ELSE IF first = last THEN OpponentPass(acc, opponentsMoves[first], turnMultiplier)
  ELSE Then(OpponentLoop(acc, opponentsMoves, first, (first + last) \div 2,
                         turnMultiplier),
            LAMBDA half : OpponentLoop(half, opponentsMoves, (first + last) \div 2 + 1,
                                       last, turnMultiplier))

\* One pass of findBestMove's outer loop; acc holds gameState,
\* opponentMinMaxScore and bestPlayerMove (<<>> for None), and the lengths of
\* moveLog as in GreedyPass.
PlayerPass(acc, playerMove, turnMultiplier) ==
  Then(getValidMovesAdvanced(processMove(acc.state, playerMove)), LAMBDA query :
    Then(IF query.state.stalemate
         THEN [state |-> query.state, opponentMaxScore |-> STALEMATE,
               depths |-> Append(acc.depths, Len(query.state.moveLog))]
         ELSE IF query.state.checkmate
         THEN [state |-> query.state, opponentMaxScore |-> 0 - CHECKMATE,
               depths |-> Append(acc.depths, Len(query.state.moveLog))]
         ELSE OpponentLoop([state |-> query.state, opponentMaxScore |-> 0 - CHECKMATE,
                            depths |-> Append(acc.depths, Len(query.state.moveLog))],
                           query.validMoves, 1, Len(query.validMoves),
                           turnMultiplier), LAMBDA answered :
      [state |-> undoMove(answered.state),
       depths |-> Append(answered.depths, Len(undoMove(answered.state).moveLog)),
       opponentMinMaxScore |->
         IF answered.opponentMaxScore < acc.opponentMinMaxScore
         THEN answered.opponentMaxScore ELSE acc.opponentMinMaxScore,
       bestPlayerMove |->
         IF answered.opponentMaxScore < acc.opponentMinMaxScore
         THEN <<playerMove>> ELSE acc.bestPlayerMove]))

\* The outer loop over validMoves[first..last], run in the same way.
RECURSIVE PlayerLoop(_, _, _, _, _)
PlayerLoop(acc, moves, first, last, turnMultiplier) ==
  IF first > last THEN acc
  ELSE IF first = last THEN PlayerPass(acc, moves[first], turnMultiplier)
  ELSE Then(PlayerLoop(acc, moves, first, (first + last) \div 2, turnMultiplier),
            LAMBDA half : PlayerLoop(half, moves, (first + last) \div 2 + 1, last,
                                     turnMultiplier))

\* findBestMove(gameState, validMoves) after random.shuffle(validMoves) left
\* the list as `shuffled`: the game it leaves and the move it returns.
findBestMove(s, shuffled) ==
  PlayerLoop([state |-> s, opponentMinMaxScore |-> CHECKMATE, bestPlayerMove |-> <<>>,
              depths |-> <<>>],
             shuffled, 1, Len(shuffled), IF s.whiteToMove THEN 1 ELSE -1)

\* The list from its k-th element on, followed by its first k - 1 elements.
Rotated(moves, k) ==
  [i \in 1..Len(moves) |-> moves[((i + k - 2) % Len(moves)) + 1]]

\* Orders random.shuffle may leave the list in: every permutation is one; the
\* rotations are taken, which bring each element to the front.
Shuffles(moves) ==
  IF Len(moves) = 0 THEN {moves} ELSE {Rotated(moves, k) : k \in 1..Len(moves)}

\* ChessAI.findBestMove(gameState, validMoves)
FindBestMove ==
  /\ called = "" /\ ~moveMade
  /\ \E shuffled \in Shuffles(validMoves) :
       \E r \in {findBestMove(GameState, shuffled)} :
         /\ Becomes(r.state)
         /\ validMoves' = shuffled
         /\ returned' = r.bestPlayerMove
         /\ depths' = r.depths
  /\ called' = "findBestMove"
  /\ args' = <<GameState, validMoves>>
  /\ raised' = ""
  /\ UNCHANGED <<moveMade, opening>>

\* ChessAI.findBestMoveGreedy(gameState, validMoves)
FindBestMoveGreedy ==
  /\ called = "" /\ ~moveMade
  /\ \E r \in {findBestMoveGreedy(GameState, validMoves)} :
       /\ Becomes(r.state)
       /\ returned' = r.bestMove
       /\ depths' = r.depths
  /\ called' = "findBestMoveGreedy"
  /\ args' = <<GameState, validMoves>>
  /\ raised' = ""
  /\ UNCHANGED <<validMoves, moveMade, opening>>

\* ChessAI.findRandomMove(validMoves)
FindRandomMove ==
  /\ called = "" /\ ~moveMade
  /\ \E r \in findRandomMove(validMoves) :
       /\ returned' = r.returned
       /\ raised' = r.raised
  /\ called' = "findRandomMove"
  /\ args' = <<validMoves>>
  /\ UNCHANGED <<game, validMoves, moveMade, opening, depths>>

\* The driver's query and move, while no chooser has been called.
Query == called = "" /\ GetValidMoves
Play == called = "" /\ ProcessMove

SearchNext == Query \/ Play \/ FindBestMove \/ FindBestMoveGreedy \/ FindRandomMove

SearchSpec == ConstructorGame /\ [][SearchNext]_vars

(***************************************************************************)
(* The methods of ChessGame called one at a time, each call recorded in     *)
(* called, args and returned: the driver's three calls, and                 *)
(* getValidMovesNaive and getCastleMoves called on a position the driver    *)
(* has just queried, once the opening is played.                            *)
(***************************************************************************)
\* The opening's moves are all in moveLog.
OpeningPlayed == Len(moveLog) >= Len(Openings[opening].moves)

\* validMoves = gameState.getValidMovesAdvanced()
CallGetValidMovesAdvanced ==
  /\ moveMade
  /\ \E r \in {getValidMovesAdvanced(GameState)} :
       /\ Becomes(r.state)
       /\ validMoves' = r.validMoves
       /\ returned' = r.validMoves
  /\ moveMade' = FALSE
  /\ called' = "getValidMovesAdvanced" /\ args' = <<>> /\ raised' = ""
  /\ UNCHANGED <<opening, depths>>

\* gameState.processMove(validMoves[i]); moveMade = True
CallProcessMove ==
  /\ ~moveMade
  /\ \E i \in 1..Len(validMoves) :
       /\ MayPlay(validMoves[i])
       /\ Becomes(processMove(GameState, validMoves[i]))
       /\ args' = <<validMoves[i]>>
  /\ moveMade' = TRUE
  /\ called' = "processMove" /\ returned' = <<>> /\ raised' = ""
  /\ UNCHANGED <<validMoves, opening, depths>>

\* gameState.undoMove(); moveMade = True
CallUndoMove ==
  /\ Becomes(undoMove(GameState))
  /\ moveMade' = TRUE
  /\ called' = "undoMove" /\ args' = <<>> /\ returned' = <<>> /\ raised' = ""
  /\ UNCHANGED <<validMoves, opening, depths>>

\* gameState.getValidMovesNaive()
CallGetValidMovesNaive ==
  /\ called = "getValidMovesAdvanced" /\ OpeningPlayed
  /\ \E r \in {getValidMovesNaive(GameState)} :
       /\ Becomes(r.state)
       /\ returned' = r.validMoves
  /\ called' = "getValidMovesNaive" /\ args' = <<>> /\ raised' = ""
  /\ UNCHANGED <<validMoves, moveMade, opening, depths>>

\* gameState.getCastleMoves(row, column, [], allyColor), for the recorded
\* location of the mover's king, as getValidMovesNaive calls it.
CallGetCastleMoves ==
  /\ called = "getValidMovesAdvanced" /\ OpeningPlayed
  /\ \E k \in {IF whiteToMove THEN WK_Location ELSE BK_Location} :
       \E r \in {getCastleMoves(GameState, k[1], k[2], <<>>)} :
         /\ Becomes(r.state)
         /\ returned' = r.moves
         /\ args' = <<k[1], k[2]>>
  /\ called' = "getCastleMoves" /\ raised' = ""
  /\ UNCHANGED <<validMoves, moveMade, opening, depths>>

NaiveNext ==
  \/ CallGetValidMovesAdvanced
  \/ CallProcessMove
  \/ CallUndoMove
  \/ CallGetValidMovesNaive
  \/ CallGetCastleMoves

NaiveSpec == Init /\ [][NaiveNext]_vars

(***************************************************************************)
(* The rules of chess, stated independently of the engine, for the         *)
(* properties below.                                                       *)
(***************************************************************************)
OrthogonalSteps == {<<-1, 0>>, <<1, 0>>, <<0, -1>>, <<0, 1>>}
DiagonalSteps == {<<-1, -1>>, <<-1, 1>>, <<1, -1>>, <<1, 1>>}
KnightSteps == {<<-2, -1>>, <<-2, 1>>, <<-1, -2>>, <<-1, 2>>,
                <<1, -2>>, <<1, 2>>, <<2, -1>>, <<2, 1>>}

Opponent(color) == IF color = "W" THEN "B" ELSE "W"
SideToMove == IF whiteToMove THEN "W" ELSE "B"
KingOf(color) == IF color = "W" THEN "WK" ELSE "BK"

\* The squares of the board holding the given piece.
SquaresOf(board, piece) ==
  {sq \in (0..7) \X (0..7) : board[sq[1]][sq[2]] = piece}

\* The distances j at which the ray from sq in direction d meets a piece.
Occupied(board, sq, d) ==
  {j \in 1..7 : /\ OnBoard(sq[1] + d[1] * j, sq[2] + d[2] * j)
                /\ board[sq[1] + d[1] * j][sq[2] + d[2] * j] # "--"}

Nearest(js) == CHOOSE j \in js : \A k \in js : j <= k

\* The piece at distance j from sq in direction d.
PieceAt(board, sq, d, j) == board[sq[1] + d[1] * j][sq[2] + d[2] * j]

\* A piece of colour `by` attacks the square sq.
Attacked(board, sq, by) ==
  \/ \E d \in KnightSteps :
       /\ OnBoard(sq[1] + d[1], sq[2] + d[2])
       /\ PieceAt(board, sq, d, 1) = (IF by = "W" THEN "WN" ELSE "BN")
  \/ \E d \in OrthogonalSteps \cup DiagonalSteps :
       /\ OnBoard(sq[1] + d[1], sq[2] + d[2])
       /\ PieceAt(board, sq, d, 1) = KingOf(by)
  \/ \E d \in OrthogonalSteps :
       LET js == Occupied(board, sq, d)
       IN  js # {} /\ PieceAt(board, sq, d, Nearest(js))
                        \in (IF by = "W" THEN {"WR", "WQ"} ELSE {"BR", "BQ"})
  \/ \E d \in DiagonalSteps :
       LET js == Occupied(board, sq, d)
       IN  js # {} /\ PieceAt(board, sq, d, Nearest(js))
                        \in (IF by = "W" THEN {"WB", "WQ"} ELSE {"BB", "BQ"})
  \/ \E dc \in {-1, 1} :
       \* a white pawn attacks the two squares diagonally above it (row - 1),
       \* a black pawn the two diagonally below it (row + 1)
       LET pr == IF by = "W" THEN sq[1] + 1 ELSE sq[1] - 1
       IN  /\ OnBoard(pr, sq[2] + dc)
           /\ board[pr][sq[2] + dc] = (IF by = "W" THEN "WP" ELSE "BP")

\* The king of the given colour is attacked.
InCheck(board, color) ==
  \E k \in SquaresOf(board, KingOf(color)) : Attacked(board, k, Opponent(color))

\* The driver holds the list getValidMovesAdvanced returned for this state.
Queried == ~moveMade

\* The last move of the log is a two-square pawn advance.
LastIsDoubleAdvance ==
  /\ Len(moveLog) > 0
  /\ Kind(moveLog[Len(moveLog)].movedPiece) = "P"
  /\ Abs(moveLog[Len(moveLog)].startRow - moveLog[Len(moveLog)].endRow) = 2

(***************************************************************************)
(* The claims.                                                             *)
(***************************************************************************)

C3_TerminalFlags ==
  Queried =>
    /\ checkmate <=> (validMoves = <<>> /\ InCheck(ChessBoard, SideToMove))
    /\ stalemate <=> (validMoves = <<>> /\ ~InCheck(ChessBoard, SideToMove))

\* The piece at distance j1 from the king square k in direction d is pinned
\* by the piece at distance j2: it is the only piece between the king and an
\* enemy rook, bishop or queen whose movement covers the ray.
PinnedAlong(board, k, d, j1, j2, color) ==
  LET js == Occupied(board, k, d)
  IN  /\ j1 \in js /\ j2 \in js /\ j1 < j2
      /\ \A j \in js : j = j1 \/ j >= j2
      /\ Color(PieceAt(board, k, d, j1)) = color
      /\ Color(PieceAt(board, k, d, j2)) = Opponent(color)
      /\ Kind(PieceAt(board, k, d, j2))
           \in (IF d \in OrthogonalSteps THEN {"R", "Q"} ELSE {"B", "Q"})

\* C4: pin restriction.  Every move, in the list getValidMovesAdvanced
\* returned, of a piece pinned to its own king ends on the pin ray, between
\* the king and the pinner or on the pinner's square; a pinned knight has none.
C4_PinRestriction ==
  Queried =>
    \A k \in SquaresOf(ChessBoard, KingOf(SideToMove)) :
      \A d \in OrthogonalSteps \cup DiagonalSteps :
        \A j1 \in 1..6 : \A j2 \in (j1 + 1)..7 :
          PinnedAlong(ChessBoard, k, d, j1, j2, SideToMove) =>
            \A i \in 1..Len(validMoves) :
              (/\ validMoves[i].startRow = k[1] + d[1] * j1
               /\ validMoves[i].startColumn = k[2] + d[2] * j1)
              => /\ Kind(validMoves[i].movedPiece) # "N"
                 /\ \E j \in 1..j2 : /\ validMoves[i].endRow = k[1] + d[1] * j
                                     /\ validMoves[i].endColumn = k[2] + d[2] * j

\* A pinned rook that keeps at least two moves, all along its pin ray.
C4_Witness ==
  /\ Queried
  /\ \E k \in SquaresOf(ChessBoard, KingOf(SideToMove)) :
       \E d \in OrthogonalSteps : \E j1 \in 1..6 : \E j2 \in (j1 + 1)..7 :
         /\ PinnedAlong(ChessBoard, k, d, j1, j2, SideToMove)
         /\ Kind(PieceAt(ChessBoard, k, d, j1)) = "R"
         /\ Cardinality({i \in 1..Len(validMoves) :
                           /\ validMoves[i].startRow = k[1] + d[1] * j1
                           /\ validMoves[i].startColumn = k[2] + d[2] * j1}) >= 2

\* The board after the pawn on `from` captures en passant the pawn on `victim`,
\* landing on `target`, by the rules of chess.
BoardAfterEnPassant(board, from, victim, target) ==
  [[board EXCEPT ![from[1]][from[2]] = "--", ![victim[1]][victim[2]] = "--"]
     EXCEPT ![target[1]][target[2]] = board[from[1]][from[2]]]

C6_CastleRevocation ==
  Queried =>
    \A i \in 1..Len(validMoves) :
      LET m == validMoves[i]
          after == processMove(GameState, m)
          r == currentCastleRight
          r2 == after.currentCastleRight
      IN  /\ (m.movedPiece = "WR" /\ m.startRow = 7 /\ m.startColumn = 0)
               => r2 = [r EXCEPT !.WQs = FALSE]
          /\ (m.movedPiece = "WR" /\ m.startRow = 7 /\ m.startColumn = 7)
               => r2 = [r EXCEPT !.WKs = FALSE]
          /\ (m.movedPiece = "BR" /\ m.startRow = 0 /\ m.startColumn = 0)
               => r2 = [r EXCEPT !.BQs = FALSE]
          /\ (m.movedPiece = "BR" /\ m.startRow = 0 /\ m.startColumn = 7)
               => r2 = [r EXCEPT !.BKs = FALSE]
          /\ m.movedPiece = "WK" => r2 = [r EXCEPT !.WKs = FALSE, !.WQs = FALSE]
          /\ m.movedPiece = "BK" => r2 = [r EXCEPT !.BKs = FALSE, !.BQs = FALSE]
          /\ undoMove(after).currentCastleRight = r

\* The rook on a1 may move while White still holds the queen-side right.
C6_Witness ==
  /\ Queried
  /\ currentCastleRight.WQs
  /\ \E i \in 1..Len(validMoves) :
       /\ validMoves[i].movedPiece = "WR"
       /\ validMoves[i].startRow = 7
       /\ validMoves[i].startColumn = 0

\* C7: history lengths.  len(moveLog) == len(castleRightsLog) - 1 in every
\* state reached by processMove and undoMove calls.
C7_HistoryLength == Len(moveLog) = Len(castleRightsLog) - 1

\* A state that only an undoMove reaches, with moves still in the log: the
\* last logged move is a two-square advance whose target has been cleared.
C7_Witness ==
  /\ LastIsDoubleAdvance
  /\ enPassantPossible = <<>>
  /\ Len(moveLog) >= 2

C9_KingLocation ==
  /\ ChessBoard[WK_Location[1]][WK_Location[2]] = "WK"
  /\ ChessBoard[BK_Location[1]][BK_Location[2]] = "BK"

C11_NewGame ==
  (opening = 1 /\ moveLog = <<>>) =>
    /\ ChessBoard = StandardBoard
    /\ whiteToMove
    /\ currentCastleRight = CastleRights(TRUE, TRUE, TRUE, TRUE)
    /\ Queried =>
         /\ Len(validMoves) = 20
         /\ Cardinality({i \in 1..Len(validMoves) : Kind(validMoves[i].movedPiece) = "P"}) = 16
         /\ Cardinality({i \in 1..Len(validMoves) : Kind(validMoves[i].movedPiece) = "N"}) = 4

\* C13: undo on an empty history.  undoMove with an empty moveLog leaves the
\* board, whiteToMove, both king locations, currentCastleRight,
\* castleRightsLog, moveLog and enPassantPossible as they are.
C13_UndoOnEmpty ==
  moveLog = <<>> =>
    LET back == undoMove(GameState)
    IN  /\ back.ChessBoard = ChessBoard
        /\ back.whiteToMove = whiteToMove
        /\ back.WK_Location = WK_Location
        /\ back.BK_Location = BK_Location
        /\ back.currentCastleRight = currentCastleRight
        /\ back.castleRightsLog = castleRightsLog
        /\ back.moveLog = moveLog
        /\ back.enPassantPossible = enPassantPossible

\* The 'z' key has been pressed on an empty history, or on a history of one
\* move: no move is logged, the driver holds a list from an earlier query and
\* is about to refresh it.
C13_Witness ==
  /\ moveLog = <<>>
  /\ moveMade
  /\ validMoves # <<>>

\* The four fields of a CastleRights object.
RightNames == {"WKs", "BKs", "WQs", "BQs"}

\* C19: castle-right monotonicity.  Across a processMove (one more move in
\* moveLog) no right goes from false to true; a right goes from false to true
\* only in an undoMove step (one move fewer in moveLog), which leaves
\* currentCastleRight equal to the snapshot below the top of castleRightsLog.
C19_CastleMonotone ==
  [][/\ (Len(moveLog') = Len(moveLog) + 1) =>
          \A k \in RightNames : currentCastleRight'[k] => currentCastleRight[k]
     /\ \A k \in RightNames :
          (~currentCastleRight[k] /\ currentCastleRight'[k]) =>
            /\ Len(moveLog') = Len(moveLog) - 1
            /\ Len(castleRightsLog) >= 2
            /\ currentCastleRight' = castleRightsLog[Len(castleRightsLog) - 1]]_vars

\* In the line that opens 1.e3 a5 2.Ke2 the king move has been processed,
\* which cleared White's two rights, and undone: two moves are logged, the
\* driver still holds White's list, and White holds both rights again.
C19_Witness ==
  /\ opening = 3
  /\ Len(moveLog) = 2
  /\ moveMade
  /\ validMoves # <<>>
  /\ Color(validMoves[1].movedPiece) = "W"
  /\ currentCastleRight.WKs /\ currentCastleRight.WQs

\* The squares from which a piece of colour `by` attacks the square sq.
Attackers(board, sq, by) ==
  {a \in (0..7) \X (0..7) :
     /\ Color(board[a[1]][a[2]]) = by
     /\ LET dr == sq[1] - a[1]
            dc == sq[2] - a[2]
            kind == Kind(board[a[1]][a[2]])
            Sgn(x) == IF x > 0 THEN 1 ELSE IF x < 0 THEN -1 ELSE 0
            dist == IF Abs(dr) > Abs(dc) THEN Abs(dr) ELSE Abs(dc)
            aligned == (dr = 0 /\ dc # 0) \/ (dc = 0 /\ dr # 0) \/ (dr # 0 /\ Abs(dr) = Abs(dc))
            clear == \A j \in 1..(dist - 1) :
                       board[a[1] + Sgn(dr) * j][a[2] + Sgn(dc) * j] = "--"
        IN  CASE kind = "N" -> <<dr, dc>> \in KnightSteps
              [] kind = "K" -> dist = 1
              [] kind = "P" -> Abs(dc) = 1 /\ dr = (IF by = "W" THEN -1 ELSE 1)
              [] kind = "R" -> aligned /\ (dr = 0 \/ dc = 0) /\ clear
              [] kind = "B" -> aligned /\ dr # 0 /\ dc # 0 /\ clear
              [] kind = "Q" -> aligned /\ clear
              [] OTHER -> FALSE}

\* The squares strictly between two squares of one rank, file or diagonal.
StrictlyBetween(k, c) ==
  LET dr == c[1] - k[1]
      dc == c[2] - k[2]
      Sgn(x) == IF x > 0 THEN 1 ELSE IF x < 0 THEN -1 ELSE 0
      dist == IF Abs(dr) > Abs(dc) THEN Abs(dr) ELSE Abs(dc)
  IN  IF dr = 0 \/ dc = 0 \/ Abs(dr) = Abs(dc)
      THEN {<<k[1] + Sgn(dr) * j, k[2] + Sgn(dc) * j>> : j \in 1..(dist - 1)}
      ELSE {}

\* The moves claim C20 expects when the king on k is checked by the one piece
\* on c: those of the pin-filtered pseudo-legal moves (the generators' output
\* for the pins seen from k) that are king moves to a square not attacked,
\* captures of the piece on c (an en-passant capture of a pawn on c included),
\* or, c not holding a knight, moves onto a square strictly between k and c.
SingleCheckAnswers(k, c) ==
  LET found == checkForPinsAndChecks(ChessBoard, whiteToMove, k, k)
      all == getAllPossibleMoves(ChessBoard, whiteToMove, enPassantPossible,
                                 found.pins, k, k).moves
      Keeps(m) ==
        IF Kind(m.movedPiece) = "K"
        THEN ~InCheck(BoardAfterMove(ChessBoard, m), SideToMove)
        ELSE \/ c = (IF m.isEnPassant THEN <<m.startRow, m.endColumn>>
                     ELSE <<m.endRow, m.endColumn>>)
             \/ /\ Kind(ChessBoard[c[1]][c[2]]) # "N"
                /\ <<m.endRow, m.endColumn>> \in StrictlyBetween(k, c)
  IN  {all[j] : j \in {n \in 1..Len(all) : Keeps(all[n])}}

Squares == (0..7) \X (0..7)

\* The Move just constructed has its four coordinates in [0,8).
ConstructedOnBoard ==
  /\ called = "Move" /\ raised = ""
  /\ args[1] \in Squares /\ args[2] \in Squares

\* Every Move between two squares of the standard board, under each choice
\* of flags.
MovesOfStandardBoard ==
  {Move(start, end, StandardBoard, flags[1], flags[2], flags[3]) :
     start \in Squares, end \in Squares, flags \in FlagChoices}

\* C12: a Move with its four coordinates in [0,8) equals another such Move
\* exactly when the four coordinates are the same, whatever the three flags
\* and the moved and captured pieces: the other Move is any Move between two
\* squares of another board, with any flags.
C12_MoveIdentity ==
  ConstructedOnBoard =>
    \A m1 \in {returned[1]} : \A m2 \in MovesOfStandardBoard :
      /\ MoveEq(m1, m2) <=> /\ m1.startRow = m2.startRow
                            /\ m1.startColumn = m2.startColumn
                            /\ m1.endRow = m2.endRow
                            /\ m1.endColumn = m2.endColumn
      /\ MoveEq(m2, m1) <=> MoveEq(m1, m2)

\* The queen's h6-h7 on the constructor's board, built with every flag set: the
\* Move between the same squares of the standard board has other pieces.
C12_Witness ==
  /\ ConstructedOnBoard
  /\ args = <<(<<2, 7>>), (<<1, 7>>), (<<TRUE, TRUE, TRUE>>)>>
  /\ returned[1].movedPiece = "WQ" /\ returned[1].capturedPiece = "WP"
  /\ Move(args[1], args[2], StandardBoard, FALSE, FALSE, FALSE).movedPiece # "WQ"

\* C14: constructing a Move with a start or end coordinate outside [0,8),
\* negative or 8 and more, raises an error, returns no Move and leaves the
\* game as it was.
C14_OutOfRangeRejection ==
  (called = "Move" /\ (args[1] \notin Squares \/ args[2] \notin Squares)) =>
    /\ raised # ""
    /\ returned = <<>>
    /\ Is(NewGame(ConstructorBoard))

\* The file letters and the rank digits, by index.
FileLetters == <<"a", "b", "c", "d", "e", "f", "g", "h">>
RankDigits == <<"1", "2", "3", "4", "5", "6", "7", "8">>

Answer(s, move) == getValidMovesAdvanced(processMove(s, move))

\* The side to move of a state.
Mover(s) == IF s.whiteToMove THEN "W" ELSE "B"

\* The greatest element of a non-empty set of integers.
MaxOf(S) == CHOOSE x \in S : \A y \in S : y <= x

\* The score the two-ply search is to give a reply: from the opponent's side,
\* CHECKMATE when it checkmates the original mover, STALEMATE when it
\* stalemates, the material otherwise.
ReplyScore(s, reply, turnMultiplier) ==
  Then(Answer(s, reply), LAMBDA q :
    IF q.validMoves = <<>>
    THEN IF InCheck(q.state.ChessBoard, Mover(q.state)) THEN CHECKMATE ELSE STALEMATE
    ELSE (0 - turnMultiplier) * scoreBoard(q.state.ChessBoard))

\* The worst-case score of a candidate: the greatest score of a reply, and
\* when there is no reply -CHECKMATE if the opponent is checkmated and
\* STALEMATE if stalemated.
WorstCase(s, candidate) ==
  Then(Answer(s, candidate), LAMBDA q :
    IF q.validMoves = <<>>
    THEN IF InCheck(q.state.ChessBoard, Mover(q.state)) THEN 0 - CHECKMATE ELSE STALEMATE
    ELSE MaxOf({ReplyScore(q.state, q.validMoves[j], IF s.whiteToMove THEN 1 ELSE -1) :
                  j \in 1..Len(q.validMoves)}))

\* C15: on a non-empty list of candidates findBestMove returns a candidate
\* whose worst-case score is the least among the candidates', whatever the
\* order the shuffle leaves and whichever side is to move.
C15_TwoPlyOptimal ==
  (called = "findBestMove" /\ args[2] # <<>>) =>
    /\ returned # <<>>
    /\ \A table \in {{<<i, WorstCase(args[1], args[2][i])>> : i \in 1..Len(args[2])}} :
         \E chosen \in table :
           /\ returned[1] = args[2][chosen[1]]
           /\ \A other \in table : chosen[2] <= other[2]

\* The score the greedy search is to give a candidate: CHECKMATE when it
\* checkmates the opponent, STALEMATE when it stalemates, the material from
\* the mover's side otherwise.
GreedyScore(s, candidate) ==
  Then(Answer(s, candidate), LAMBDA q :
    IF q.validMoves = <<>>
    THEN IF InCheck(q.state.ChessBoard, Mover(q.state)) THEN CHECKMATE ELSE STALEMATE
    ELSE (IF s.whiteToMove THEN 1 ELSE -1) * scoreBoard(q.state.ChessBoard))

\* C16: on a non-empty list findBestMoveGreedy returns the first candidate, in
\* the order of the list, whose score is the greatest.
C16_GreedyFirstBest ==
  (called = "findBestMoveGreedy" /\ args[2] # <<>>) =>
    \A table \in {{<<i, GreedyScore(args[1], args[2][i])>> : i \in 1..Len(args[2])}} :
      \E chosen \in table :
        /\ returned = <<args[2][chosen[1]]>>
        /\ \A other \in table :
             /\ other[2] <= chosen[2]
             /\ other[1] < chosen[1] => other[2] < chosen[2]

\* C18: findRandomMove returns an element of a non-empty list, and on the
\* empty list, for which the search returns None, it completes without
\* raising.
C18_RandomFallback ==
  (called = "findRandomMove") =>
    /\ args[1] # <<>> => \E i \in 1..Len(args[1]) : returned = <<args[1][i]>>
    /\ args[1] = <<>> => findBestMove(GameState, args[1]).bestPlayerMove = <<>>
    /\ raised = ""

\* C21: double check.  When two or more enemy pieces attack the king of the
\* side to move, every move of the list getValidMovesAdvanced returned is a
\* move of that king.
C21_DoubleCheck ==
  Queried =>
    \A k \in SquaresOf(ChessBoard, KingOf(SideToMove)) :
      Cardinality(Attackers(ChessBoard, k, Opponent(SideToMove))) >= 2 =>
        \A i \in 1..Len(validMoves) :
          /\ validMoves[i].movedPiece = KingOf(SideToMove)
          /\ <<validMoves[i].startRow, validMoves[i].startColumn>> = k

\* A double check was answered: two pieces attack the king and it has a move.
C21_Witness ==
  /\ Queried /\ Len(validMoves) > 0
  /\ \E k \in SquaresOf(ChessBoard, KingOf(SideToMove)) :
       Cardinality(Attackers(ChessBoard, k, Opponent(SideToMove))) >= 2

\* The king of the side to move stands on the square recorded for it.
KingLocationConsistent ==
  LET k == IF whiteToMove THEN WK_Location ELSE BK_Location
  IN  ChessBoard[k[1]][k[2]] = KingOf(SideToMove)

\* C22: check detection.  With the recorded king location consistent with the
\* board, checkForPinsAndChecks returns inCheck exactly when some enemy piece
\* attacks the king of the side to move under the rules of chess, and its
\* checks hold one descriptor for each attacking piece and no other: their
\* squares are the attackers' squares and their number is the attackers'.
C22_CheckDetection ==
  KingLocationConsistent =>
    \E found \in {checkForPinsAndChecks(ChessBoard, whiteToMove,
                                         WK_Location, BK_Location)} :
      \E attackers \in {Attackers(ChessBoard,
                                   IF whiteToMove THEN WK_Location ELSE BK_Location,
                                   Opponent(SideToMove))} :
        /\ found.inCheck <=> attackers # {}
        /\ Len(found.checks) = Cardinality(attackers)
        /\ {<<found.checks[i][1], found.checks[i][2]>> :
              i \in 1..Len(found.checks)} = attackers

\* getValidMovesAdvanced recorded two checks at once, one of them a knight's.
C22_Witness ==
  /\ Queried /\ KingLocationConsistent
  /\ inCheckByPiece /\ Len(checks) = 2
  /\ checks = checkForPinsAndChecks(ChessBoard, whiteToMove,
                                     WK_Location, BK_Location).checks
  /\ \E i \in 1..2 : Kind(ChessBoard[checks[i][1]][checks[i][2]]) = "N"

\* The list getValidMovesAdvanced returned holds a move between the squares.
Returned(from, to) ==
  \E i \in 1..Len(validMoves) :
    /\ <<validMoves[i].startRow, validMoves[i].startColumn>> = from
    /\ <<validMoves[i].endRow, validMoves[i].endColumn>> = to

\* The direction in which the pawns of the colour advance.
Advance(color) == IF color = "W" THEN -1 ELSE 1

FarRow(color) == IF color = "W" THEN 0 ELSE 7

\* C27: promotion.  In the list getValidMovesAdvanced returned, the moves with
\* isPawnPromotion set are exactly the pawn moves ending on the mover's far
\* rank; the destination of a promotion processed last holds a queen of the
\* mover's colour; and no pawn stands on row 0 or row 7.
C27_Promotion ==
  /\ Queried =>
       \A i \in 1..Len(validMoves) :
         validMoves[i].isPawnPromotion
           <=> (/\ Kind(validMoves[i].movedPiece) = "P"
                /\ validMoves[i].endRow = FarRow(Color(validMoves[i].movedPiece)))
  /\ Len(moveLog) > 0 =>
       LET last == moveLog[Len(moveLog)]
       IN  last.isPawnPromotion =>
             ChessBoard[last.endRow][last.endColumn] = QueenOf(Color(last.movedPiece))
  /\ \A column \in 0..7 : /\ Kind(ChessBoard[0][column]) # "P"
                           /\ Kind(ChessBoard[7][column]) # "P"

\* A black pawn's capture on white's home rank was just processed and left a
\* black queen there.
C27_Witness ==
  /\ moveMade /\ Len(moveLog) > 0
  /\ LET last == moveLog[Len(moveLog)]
     IN  /\ last.isPawnPromotion /\ last.movedPiece = "BP"
         /\ last.capturedPiece # "--" /\ last.endRow = 7
         /\ ChessBoard[last.endRow][last.endColumn] = "BQ"
         /\ \E i \in 1..Len(validMoves) : MoveEq(validMoves[i], last)

\* The king's home row of the colour.
HomeRow(color) == IF color = "W" THEN 7 ELSE 0

\* The side holds the right to castle on the side (step 1 for the king's
\* side, -1 for the queen's).
HoldsRight(color, step) ==
  IF color = "W"
  THEN (IF step = 1 THEN currentCastleRight.WKs ELSE currentCastleRight.WQs)
  ELSE (IF step = 1 THEN currentCastleRight.BKs ELSE currentCastleRight.BQs)

\* By the rules of chess the side to move may castle on the side: it holds
\* the right, king and rook stand on their home squares, the squares between
\* them are empty, and the king's square, the square it passes and the square
\* it lands on are not attacked.
MayCastle(step) ==
  LET row == HomeRow(SideToMove)
      rookColumn == IF step = 1 THEN 7 ELSE 0
      between == IF step = 1 THEN {5, 6} ELSE {1, 2, 3}
  IN  /\ HoldsRight(SideToMove, step)
      /\ ChessBoard[row][4] = KingOf(SideToMove)
      /\ Color(ChessBoard[row][rookColumn]) = SideToMove
      /\ Kind(ChessBoard[row][rookColumn]) = "R"
      /\ \A column \in between : ChessBoard[row][column] = "--"
      /\ \A j \in 0..2 :
           ~Attacked(ChessBoard, <<row, 4 + step * j>>, Opponent(SideToMove))

C30_FlagClearing ==
  /\ called = "undoMove" => ~checkmate /\ ~stalemate
  /\ (/\ called \in {"getValidMovesAdvanced", "getValidMovesNaive"}
      /\ Len(returned) > 0) => ~checkmate /\ ~stalemate
  /\ ~(checkmate /\ stalemate)

\* undoMove was called on a position for which the queries had returned no
\* move: the mate that ends DoubleCheckLine after the knight's check on d6.
C30_Witness ==
  /\ called = "undoMove" /\ ~checkmate /\ ~stalemate
  /\ Len(validMoves) = 0
  /\ Openings[opening].moves = DoubleCheckLine /\ Len(moveLog) = Len(DoubleCheckLine)

\* The board with the piece on `from` moved onto `to`.
Moved(board, from, to) ==
  [r \in 0..7 |-> [c \in 0..7 |->
     IF <<r, c>> = to THEN board[from[1]][from[2]]
     ELSE IF <<r, c>> = from THEN "--"
     ELSE board[r][c]]]

\* getKingMoves as getAllPossibleMoves calls it, for the king of the side to
\* move standing on k.
KingMovesFrom(k) ==
  getKingMoves(ChessBoard, whiteToMove, k[1], k[2],
               [moves |-> <<>>, pins |-> pins,
                WK_Location |-> WK_Location, BK_Location |-> BK_Location])

\* C28: king self-check probe.  Every move getKingMoves emits for the king of
\* the side to move ends on an adjacent square on which, with the king moved
\* there and gone from its origin, no enemy piece attacks it; and the king's
\* recorded location after the call is the square passed in, however many
\* candidate squares were probed.
C28_KingProbe ==
  \A k \in SquaresOf(ChessBoard, KingOf(SideToMove)) :
    \E r \in {KingMovesFrom(k)} :
      /\ \A i \in 1..Len(r.moves) :
           LET to == <<r.moves[i].endRow, r.moves[i].endColumn>>
           IN  /\ <<r.moves[i].startRow, r.moves[i].startColumn>> = k
               /\ Abs(to[1] - k[1]) <= 1 /\ Abs(to[2] - k[2]) <= 1 /\ to # k
               /\ ~Attacked(Moved(ChessBoard, k, to), to, Opponent(SideToMove))
      /\ (IF whiteToMove THEN r.WK_Location ELSE r.BK_Location) = k

\* getValidMovesAdvanced returned a move of the king and left out a free
\* square beside the king on which it would be attacked through its origin;
\* the recorded location is the king's square.
C28_Witness ==
  /\ Queried
  /\ \E k \in SquaresOf(ChessBoard, KingOf(SideToMove)) :
       /\ (IF whiteToMove THEN WK_Location ELSE BK_Location) = k
       /\ \E i \in 1..Len(validMoves) :
            /\ validMoves[i].movedPiece = KingOf(SideToMove)
            /\ InList(validMoves[i], KingMovesFrom(k).moves)
       /\ \E d \in OrthogonalSteps \cup DiagonalSteps :
            /\ OnBoard(k[1] + d[1], k[2] + d[2])
            /\ ChessBoard[k[1] + d[1]][k[2] + d[2]] = "--"
            /\ ~Attacked(ChessBoard, <<k[1] + d[1], k[2] + d[2]>>, Opponent(SideToMove))
            /\ Attacked(Moved(ChessBoard, k, <<k[1] + d[1], k[2] + d[2]>>),
                        <<k[1] + d[1], k[2] + d[2]>>, Opponent(SideToMove))
            /\ ~Returned(k, <<k[1] + d[1], k[2] + d[2]>>)

\* C29: search stack discipline.  After findBestMoveGreedy or findBestMove,
\* the lengths moveLog had after each processMove and undoMove of the search
\* start one above the length on entry, change by exactly one from each call
\* to the next, never exceed the entry length by more than 1 (greedy) or 2
\* (two-ply), never fall below it, and end on it: each candidate is undone
\* before the next is processed, each reply is undone before its candidate
\* is; and moveLog is the sequence it was on entry.
C29_StackDiscipline ==
  called \in {"findBestMove", "findBestMoveGreedy"} =>
    LET entry == Len(args[1].moveLog)
        deepest == IF called = "findBestMoveGreedy" THEN entry + 1 ELSE entry + 2
        Before(i) == IF i = 1 THEN entry ELSE depths[i - 1]
    IN  /\ moveLog = args[1].moveLog
        /\ \A i \in 1..Len(depths) :
             /\ entry <= depths[i] /\ depths[i] <= deepest
             /\ Abs(depths[i] - Before(i)) = 1
        /\ Len(depths) > 0 => depths[Len(depths)] = entry
        /\ Len(depths) >= 2 * Len(args[2])

\* findBestMove searched from a history of one move: candidates and replies
\* were processed, two deep, and the history is the one move again.
C29_Witness ==
  /\ called = "findBestMove" /\ Len(moveLog) = 1 /\ moveLog = args[1].moveLog
  /\ \E i \in 1..Len(depths) : depths[i] = 3
  /\ depths[Len(depths)] = 1

\* The pawn of the colour.
PawnOf(color) == IF color = "W" THEN "WP" ELSE "BP"

\* C31: en-passant effect.  A processMove step (one more move in moveLog) of
\* a move with isEnPassant set changes the board as the rules do: the
\* capturing pawn stands on the destination, its origin is empty, and the one
\* further square emptied is the square of the origin's rank and the
\* destination's file, which held an enemy pawn; capturedPiece is that enemy
\* pawn.  An undoMove step (one move fewer) of such a move puts the captured
\* pawn back on that square and the capturing pawn on its origin, empties the
\* destination and sets enPassantPossible to the destination.
C31_EnPassantEffect ==
  [][/\ (Len(moveLog') = Len(moveLog) + 1 /\ moveLog'[Len(moveLog')].isEnPassant) =>
          LET move == moveLog'[Len(moveLog')]
              from == <<move.startRow, move.startColumn>>
              to == <<move.endRow, move.endColumn>>
              beside == <<move.startRow, move.endColumn>>
              enemy == PawnOf(Opponent(Color(move.movedPiece)))
          IN  /\ Kind(move.movedPiece) = "P"
              /\ ChessBoard[to[1]][to[2]] = "--"
              /\ ChessBoard[beside[1]][beside[2]] = enemy
              /\ move.capturedPiece = enemy
              /\ ChessBoard'[to[1]][to[2]] = move.movedPiece
              /\ ChessBoard' = BoardAfterEnPassant(ChessBoard, from, beside, to)
     /\ (Len(moveLog') = Len(moveLog) - 1 /\ moveLog[Len(moveLog)].isEnPassant) =>
          LET move == moveLog[Len(moveLog)]
              enemy == PawnOf(Opponent(Color(move.movedPiece)))
          IN  /\ ChessBoard'[move.startRow][move.endColumn] = enemy
              /\ ChessBoard'[move.endRow][move.endColumn] = "--"
              /\ ChessBoard'[move.startRow][move.startColumn] = move.movedPiece
              /\ ChessBoard = BoardAfterEnPassant(ChessBoard',
                                <<move.startRow, move.startColumn>>,
                                <<move.startRow, move.endColumn>>,
                                <<move.endRow, move.endColumn>>)
              /\ enPassantPossible' = <<move.endRow, move.endColumn>>]_vars

\* An en-passant capture was just processed: the pawn beside the destination
\* is gone and the move holds it as its capturedPiece.
C31_Witness ==
  /\ moveMade /\ Len(moveLog) > 1
  /\ LET move == moveLog[Len(moveLog)]
         before == moveLog[Len(moveLog) - 1]
     IN  /\ move.isEnPassant
         /\ move.capturedPiece = before.movedPiece
         /\ <<before.endRow, before.endColumn>> = <<move.startRow, move.endColumn>>
         /\ ChessBoard[move.startRow][move.endColumn] = "--"
         /\ ChessBoard[move.endRow][move.endColumn] = move.movedPiece
         /\ enPassantPossible = <<>>

\* C32: the legal-move queries are observationally pure.  A step that calls
\* getValidMovesAdvanced or getValidMovesNaive leaves the board, the turn,
\* the two recorded king locations, moveLog, castleRightsLog,
\* currentCastleRight and enPassantPossible as they were.
C32_QueryPure ==
  [][called' \in {"getValidMovesAdvanced", "getValidMovesNaive"} =>
       UNCHANGED <<ChessBoard, whiteToMove, WK_Location, BK_Location, moveLog,
                   castleRightsLog, currentCastleRight, enPassantPossible>>]_vars

\* The moves of a list, by their four coordinates.
Identities(moves) == {moves[i].moveID : i \in 1..Len(moves)}

\* C33: the two legal-move generators agree.  Whenever getValidMovesNaive has
\* just been called on the position for which validMoves holds the list of
\* getValidMovesAdvanced, the two lists hold the same moves, compared by their
\* coordinates, castle and en-passant moves included.
C33_GeneratorsAgree ==
  called = "getValidMovesNaive" =>
    Identities(returned) = Identities(validMoves)


RookOf(color) == IF color = "W" THEN "WR" ELSE "BR"

\* C34: castling moves a real rook.  For every castle move getCastleMoves
\* emitted, a rook of the mover's colour stands on the corner of the mover's
\* home rank on the side of the castle, and after processMove of the move the
\* square on file f (king's side) or file d (queen's side) of that rank holds
\* a rook of the mover's colour and the corner is empty.
C34_CastleRealRook ==
  called = "getCastleMoves" =>
    \A i \in 1..Len(returned) :
      LET move == returned[i]
          color == Color(move.movedPiece)
          row == HomeRow(color)
          kingSide == move.endColumn > move.startColumn
          corner == IF kingSide THEN 7 ELSE 0
          landing == IF kingSide THEN 5 ELSE 3
          after == processMove(GameState, move).ChessBoard
      IN  /\ ChessBoard[row][corner] = RookOf(color)
          /\ after[row][landing] = RookOf(color)
          /\ after[row][corner] = "--"


\* C35: unique move identities.  In the list getValidMovesAdvanced returned,
\* in every state the driver reaches by processMove and undoMove, no two
\* moves have the same four coordinates.
C35_UniqueIdentities ==
  Queried =>
    \A i, j \in 1..Len(validMoves) :
      i # j => validMoves[i].moveID # validMoves[j].moveID


\* The driver queried the position in which the knight stands on b3 again,
\* the moves after it undone: the pawns on a2 and c2 each capture it once,
\* and no en-passant square is recorded.
C35_Witness ==
  /\ Queried /\ whiteToMove
  /\ Openings[opening].moves = UndoneAdvanceLine
  /\ Len(moveLog) < Len(UndoneAdvanceLine)
  /\ ChessBoard[5][1] = "BN"
  /\ enPassantPossible = <<>>
  /\ \A column \in {0, 2} :
       Cardinality({i \in 1..Len(validMoves) :
                      /\ <<validMoves[i].startRow, validMoves[i].startColumn>> = <<6, column>>
                      /\ <<validMoves[i].endRow, validMoves[i].endColumn>> = <<5, 1>>}) = 1


====
